---- MODULE Spec2Model ----
(***************************************************************************)
(* Daily limit controller: the v1.3 server (file-based storage), the v1.2   *)
(* server (in-memory storage), the v1.1 server (two Maps) and the caller.  *)
(*                                                                         *)
(* handler is an async function.  An invocation runs without interruption  *)
(* from one await to the next and gives way to the other invocations at    *)
(* each await, so an invocation is a sequence of steps, one for each       *)
(* stretch of code between two awaits.  Every Date.now() and new Date() is *)
(* a reading of the wall clock of its own; a step reads the clock at most  *)
(* once, and a stretch that reads it more than once is divided into steps  *)
(* between which no other invocation runs.                                 *)
(*                                                                         *)
(* Time is counted in seconds since 00:00:00 UTC of day 0; the source      *)
(* counts milliseconds (Date.now()) and multiplies the ttl by 1000, so one *)
(* model second is 1000 source milliseconds.  A UTC date (the YYYY-MM-DD   *)
(* prefix of toISOString()) is the day number  now \div 86400.             *)
(* Strings that the source concatenates or truncates (network address,     *)
(* user-agent, device fingerprint) are sequences of one-character strings. *)
(***************************************************************************)
EXTENDS Integers, Sequences, FiniteSets, TLC

VARIABLES
    storage,      \* content of /tmp/daily_limits.json: key -> item
                  \* (v1.2: the counter entries of the Map)
    suspicious,   \* content of /tmp/suspicious_activity.json: ip -> record
                  \* (v1.2: the suspicious:<ip> entries of the Map)
    now,          \* wall clock, seconds
    req,          \* the request handled last (NoRequest before the first)
    res,          \* the response sent last   (NoResponse before the first)
    served,       \* number of requests handled in this run
    peek,         \* history: the first get_remaining since the last
                  \* check_and_increment, with the response it got
    disk,         \* the condition of the two files: whether reading and
                  \* writing them succeeds
    server,       \* the version that is deployed: "v1.3", "v1.2" or "v1.1"
    calls         \* the invocations of handler: for each its position, its
                  \* local variables and the state it found on arrival

vars == <<storage, suspicious, now, req, res, served, peek, disk, server, calls>>

----------------------------------------------------------------------------
(* Bounds and input sets *)

MaxRequests == 2

MaxCalls == 12

MaxTyped == 13

MaxVisits == 3

\* The requests of a caller that does not wait for the answers
MaxRacers == 4

MaxInFlight == 2

MaxStrict == 8

MaxSweep == 3

SecondsPerDay == 86400

\* The instants at which the clock is read: day 0 12:00:00 and
\* day 1 00:00:01.
Instants == {43200, 86401}

Dash == <<"-">>

Undefined == <<"u", "n", "d", "e", "f", "i", "n", "e", "d">>

\* A body without the deviceFingerprint field
NoFingerprint == [given |-> FALSE, text |-> <<>>]

\* User-agents longer than both truncation lengths.  UaHead differs from
\* UaBase in its first character, UaMid in character 40, UaTail in
\* character 51.
UaBase == [i \in 1..51 |-> "a"]
UaHead == [i \in 1..51 |-> IF i = 1 THEN "b" ELSE "a"]
UaMid  == [i \in 1..51 |-> IF i = 40 THEN "b" ELSE "a"]
UaTail == [i \in 1..51 |-> IF i = 51 THEN "b" ELSE "a"]

IpA == <<"1">>
IpB == <<"2">>

\* The IPv6 loopback address ::1
IpSix == <<":", ":", "1">>

\* 203.0.113.7
IpDoc == <<"2", "0", "3", ".", "0", ".", "1", "1", "3", ".", "7">>

\* The header x-forwarded-for: __proto__
IpProto == <<"_", "_", "p", "r", "o", "t", "o", "_", "_">>

FpA == [given |-> TRUE, text |-> <<"f">>]

NoRequest == [method |-> "none"]
NoResponse == [status |-> 0]
NoPeek == [req |-> NoRequest]

\* The calls of store methods an invocation has made, and the number of
\* times they wrote the counter file
NoOps ==
    [cleanup |-> 0, getSuspicious |-> 0, setSuspicious |-> 0, get |-> 0,
     set |-> 0, written |-> 0]

\* The files, their condition and the clock as an invocation found them on
\* arrival
NoSnapshot ==
    [storage |-> <<>>, suspicious |-> <<>>, now |-> 0,
     disk |-> [limits |-> "ok", suspects |-> "ok"]]

\* An invocation of handler that has not started.  date is the utcDate (v1.1:
\* today) read by handleCheckAndIncrement or handleGetRemaining, stamp the
\* clock reading a step keeps for the next step of its stretch, overlapped
\* whether another invocation was under way at some time during this one.
IdleCall ==
    [pc |-> "idle", r |-> NoRequest, at |-> NoSnapshot, date |-> 0, stamp |-> 0,
     existing |-> [userIds |-> {}, count |-> 0],
     isSuspicious |-> FALSE, counts |-> <<0, 0, 0>>, overlapped |-> FALSE,
     res |-> NoResponse, ops |-> NoOps]

NoCalls == [i \in 1..MaxInFlight |-> IdleCall]

----------------------------------------------------------------------------
(* Clock *)

Max2(a, b) == IF a >= b THEN a ELSE b

Min2(a, b) == IF a <= b THEN a ELSE b

\* new Date().toISOString().split('T')[0]
utcDate(t) == t \div SecondsPerDay

\* The UTC calendar of Date, for the years 1970 to 2037 (the instants that
\* fit in 31 bits of seconds).  Instant 0 is 1970-01-01T00:00:00Z; months
\* are numbered from 0 as getUTCMonth does.

\* Day(t): the day number of instant t
Day(t) == t \div SecondsPerDay

\* TimeWithinDay(t)
TimeWithinDay(t) == t % SecondsPerDay

DaysInYear(y) ==
    IF y % 4 # 0 THEN 365
    ELSE IF y % 100 # 0 THEN 366
    ELSE IF y % 400 # 0 THEN 365
    ELSE 366

\* The day number of January 1 of year y
DayFromYear(y) ==
    (365 * (y - 1970)) + ((y - 1969) \div 4) - ((y - 1901) \div 100)
        + ((y - 1601) \div 400)

\* The largest y with DayFromYear(y) <= Day(t): that year is 1970 plus the
\* number of whole 366-day spans, or the year after
YearFromTime(t) ==
    LET y == 1970 + (Day(t) \div 366)
    IN  IF DayFromYear(y + 1) <= Day(t) THEN y + 1 ELSE y

InLeapYear(y) == DaysInYear(y) = 366

\* The days within year y on which its twelve months begin
MonthStarts(y) ==
    IF InLeapYear(y)
    THEN <<0, 31, 60, 91, 121, 152, 182, 213, 244, 274, 305, 335>>
    ELSE <<0, 31, 59, 90, 120, 151, 181, 212, 243, 273, 304, 334>>

\* The day within year y on which month m (0 to 11) begins
MonthStart(y, m) == MonthStarts(y)[m + 1]

\* getUTCMonth()
MonthFromTime(t) ==
    LET y == YearFromTime(t)
        d == Day(t) - DayFromYear(y)
        starts == MonthStarts(y)
    IN  CHOOSE m \in 0..11 :
            /\ starts[m + 1] <= d
            /\ m < 11 => d < starts[m + 2]

\* getUTCDate()
DateFromTime(t) ==
    LET y == YearFromTime(t)
    IN  Day(t) - DayFromYear(y) - MonthStart(y, MonthFromTime(t)) + 1

\* MakeDay(year, month, date) for a month in 0..11: a date beyond the end of
\* the month runs on into the months that follow
MakeDay(year, month, date) ==
    DayFromYear(year) + MonthStart(year, month) + date - 1

\* tomorrow.setUTCDate(dt)
setUTCDate(t, dt) ==
    (MakeDay(YearFromTime(t), MonthFromTime(t), dt) * SecondsPerDay)
        + TimeWithinDay(t)

\* tomorrow.setUTCHours(0, 0, 0, 0)
setUTCHoursZero(t) == Day(t) * SecondsPerDay

\* getNextResetTime: the instant that toISOString() prints
getNextResetTime(t) == setUTCHoursZero(setUTCDate(t, DateFromTime(t) + 1))

----------------------------------------------------------------------------
(* FileBasedStorage *)

\* Variant: the primary count alone is taken as the current count
Max3First(a, b, c) == a

\* Math.max(primaryCount, secondaryCount, tertiaryCount)
Max3(a, b, c) == Max2(a, Max2(b, c))

\* str.substring(0, n)
substring(str, n) == SubSeq(str, 1, Min2(n, Len(str)))

\* Variant: the expiry comparison is inverted
ExpiredInverted(item, t) == item.expires # 0 /\ t < item.expires

\* item.expires && Date.now() > item.expires: an item whose expires is 0
\* never expires
Expired(item, t) == item.expires # 0 /\ t > item.expires

\* The condition m of a file: "ok", "unreadable" (readFileSync or JSON.parse
\* throws) or "readonly" (reading succeeds, writeFileSync throws).  Every
\* method of the store catches what the file operations throw.
Modes == {"ok", "unreadable", "readonly"}

Healthy == [limits |-> "ok", suspects |-> "ok"]

\* Variant: get does not look at the expiry of the item
StorageGetValueUnexpiring(m, data, key, t) ==
    IF m = "unreadable" THEN 0
    ELSE IF key \notin DOMAIN data THEN 0
    ELSE data[key].value

\* Variant: a read that fails is answered with the count last written
StorageGetValueStale(m, data, key, t) ==
    IF key \notin DOMAIN data THEN 0
    ELSE IF Expired(data[key], t) THEN 0
    ELSE data[key].value

\* get: the value returned (0 from the catch block when reading fails)
StorageGetValue(m, data, key, t) ==
    IF m = "unreadable" THEN 0
    ELSE IF key \notin DOMAIN data THEN 0
    ELSE IF Expired(data[key], t) THEN 0
    ELSE data[key].value

\* get: the file content it leaves (an expired item is deleted)
StorageGetData(m, data, key, t) ==
    IF m = "ok" /\ key \in DOMAIN data /\ Expired(data[key], t)
    THEN [k \in DOMAIN data \ {key} |-> data[k]]
    ELSE data

\* Variant: set writes nothing
StorageSetLost(m, data, key, value, ttl, t, u) == data

\* Variant: the ttl is added to the clock without the factor 1000, as if it
\* were milliseconds
StorageSetMillis(m, data, key, value, ttl, t, u) ==
    IF m # "ok" THEN data
    ELSE [k \in DOMAIN data \cup {key} |->
            IF k = key
            THEN [value |-> value, expires |-> t + (ttl \div 1000), timestamp |-> u]
            ELSE data[k]]

\* set(key, value, ttl): t is the reading of Date.now() for expires, u the
\* reading of new Date() for timestamp that follows it
StorageSet(m, data, key, value, ttl, t, u) ==
    IF m # "ok" THEN data
    ELSE [k \in DOMAIN data \cup {key} |->
            IF k = key
            THEN [value |-> value, expires |-> t + ttl, timestamp |-> u]
            ELSE data[k]]

\* getSuspicious(ip).  data['__proto__'] of a parsed file is the prototype of
\* all objects, which is truthy and has no userIds: the caller takes it
\* for a record without ids.
GetSuspicious(m, sdata, ip) ==
    IF m = "unreadable" THEN [userIds |-> {}, count |-> 0]
    ELSE IF ip = IpProto THEN [userIds |-> {}, count |-> 0]
    ELSE IF ip \in DOMAIN sdata THEN sdata[ip]
    ELSE [userIds |-> {}, count |-> 0]

\* setSuspicious(ip, data).  fileData['__proto__'] = data replaces the
\* prototype of fileData and adds no property, so JSON.stringify writes the
\* file as it was.
SetSuspicious(m, sdata, ip, rec) ==
    IF m # "ok" THEN sdata
    ELSE IF ip = IpProto THEN sdata
    ELSE [i \in DOMAIN sdata \cup {ip} |-> IF i = ip THEN rec ELSE sdata[i]]

\* Variant: cleanup also removes the items that expire at this instant
CleanupBoundary(m, data, t) ==
    IF m # "ok" THEN data
    ELSE [k \in {x \in DOMAIN data : data[x].expires = 0 \/ t < data[x].expires} |->
            data[k]]

\* cleanup(): the flag cleaned, whether an expired item was found
CleanupCleaned(m, data, t) ==
    m # "unreadable" /\ \E k \in DOMAIN data : Expired(data[k], t)

\* cleanup()
Cleanup(m, data, t) ==
    IF m # "ok" THEN data
    ELSE [k \in {x \in DOMAIN data : ~Expired(data[x], t)} |-> data[k]]

----------------------------------------------------------------------------
(* Key derivation *)

\* A deviceFingerprint given as the JSON object {"toString": null}: a
\* template literal cannot convert it to a string and throws a TypeError
FpUnprintable == [given |-> TRUE, text |-> <<"!">>]

Printable(fp) == fp # FpUnprintable

\* `${deviceFingerprint}` of a body without the field is "undefined"
Text(fp) == IF fp.given THEN fp.text ELSE Undefined

\* hashString: the first 16 hex digits of SHA-256, taken as free of
\* collisions on the strings of the model
hashString(str) == [digest |-> str]

\* Variant: the declared userId is part of the primary key material
primaryKeyWithUser(r) ==
    hashString(r.ip \o Dash \o substring(r.userAgent, 50) \o Dash
               \o Text(r.deviceFingerprint) \o Dash \o <<r.userId>>)

primaryKey(r) ==
    hashString(r.ip \o Dash \o substring(r.userAgent, 50) \o Dash
               \o Text(r.deviceFingerprint))

secondaryKey(r) ==
    hashString(r.ip \o Dash \o Text(r.deviceFingerprint))

tertiaryKey(r) ==
    hashString(substring(r.userAgent, 30) \o Dash \o Text(r.deviceFingerprint))

\* Variant: the counter key does not vary with the date
CounterKeyUndated(key, date, type) == <<key, 0, type>>

\* Variant: the counter key does not vary with the type
CounterKeyUntyped(key, date, type) == <<key, date, "comments">>

\* `${key}:${utcDate}:${type}`
CounterKey(key, date, type) == <<key, date, type>>

----------------------------------------------------------------------------
(* Request evaluation *)

\* checkSuspiciousActivity: the record passed to setSuspicious; t is the
\* reading of new Date() for lastSeen
ObservedRecord(existingActivity, userId, t) ==
    LET userIds == existingActivity.userIds \cup {userId}
    IN  [userIds |-> userIds, count |-> Cardinality(userIds), lastSeen |-> t]

\* Variant: the third distinct userId already counts as suspicious
checkSuspiciousActivityAtThree(existingActivity, userId) ==
    Cardinality(existingActivity.userIds \cup {userId}) >= 3

\* checkSuspiciousActivity: the flag returned, userIds.size > 3
checkSuspiciousActivity(existingActivity, userId) ==
    Cardinality(existingActivity.userIds \cup {userId}) > 3

\* Variant: the limits of posts and comments are interchanged
dailyLimitSwapped(type, isSuspicious) ==
    IF isSuspicious
    THEN (IF type = "posts" THEN 5 ELSE 1)
    ELSE (IF type = "posts" THEN 10 ELSE 2)

\* let dailyLimit = ... in handleCheckAndIncrement
dailyLimit(type, isSuspicious) ==
    IF isSuspicious
    THEN (IF type = "posts" THEN 1 ELSE 5)
    ELSE (IF type = "posts" THEN 2 ELSE 10)

\* Variant: get_remaining ignores the suspicion flag
dailyLimitPeekLoose(type, isSuspicious) ==
    IF type = "posts" THEN 2 ELSE 10

\* let dailyLimit = ... in handleGetRemaining
dailyLimitPeek(type, isSuspicious) ==
    IF isSuspicious
    THEN (IF type = "posts" THEN 1 ELSE 5)
    ELSE (IF type = "posts" THEN 2 ELSE 10)

\* Variant: the limit is compared with > instead of >=
LimitExceeded(currentCount, limit) == currentCount > limit

\* if (currentCount >= dailyLimit)
LimitReached(currentCount, limit) == currentCount >= limit

\* A type given as the JSON number 7: it takes part in comparisons and
\* template literals as any string does, but it has no charAt method
TypeNumber == "#7"

\* type.charAt(0) can be called
HasCharAt(type) == type # TypeNumber

\* An exception leaving the function
Thrown == [status |-> 0, kind |-> "thrown"]

\* handleCheckAndIncrement: the response of a request at its limit; t is the
\* clock reading of getNextResetTime
handleCheckAndIncrementReached(type, isSuspicious, t) ==
    LET limit == dailyLimit(type, isSuspicious)
        resetTime == getNextResetTime(t)
    IN  [status |-> 200, kind |-> "check_and_increment",
         allowed |-> FALSE, remaining |-> 0, resetTime |-> resetTime,
         message |-> <<"limit reached", limit, type, resetTime>>,
         suspicious |-> isSuspicious]

\* handleCheckAndIncrement: the response after the three sets; building the
\* message throws when type has no charAt
handleCheckAndIncrement(currentCount, type, isSuspicious, t) ==
    LET limit == dailyLimit(type, isSuspicious)
        remaining == limit - (currentCount + 1)
        resetTime == getNextResetTime(t)
    IN  IF ~HasCharAt(type) THEN Thrown
        ELSE [status |-> 200, kind |-> "check_and_increment",
              allowed |-> TRUE, remaining |-> remaining, resetTime |-> resetTime,
              message |-> <<"generated", remaining, type, resetTime>>,
              suspicious |-> isSuspicious]

\* Variant: get_remaining returns the difference as it is
handleGetRemainingUnclamped(currentCount, type, isSuspicious, t) ==
    LET limit == dailyLimitPeek(type, isSuspicious)
        remaining == limit - currentCount
        resetTime == getNextResetTime(t)
    IN  [status |-> 200, kind |-> "get_remaining",
         remaining |-> remaining, resetTime |-> resetTime,
         message |-> <<"remaining", remaining, type, resetTime>>,
         suspicious |-> isSuspicious]

\* handleGetRemaining: the response, from the maximum of the three counts
handleGetRemaining(currentCount, type, isSuspicious, t) ==
    LET limit == dailyLimitPeek(type, isSuspicious)
        remaining == Max2(0, limit - currentCount)
        resetTime == getNextResetTime(t)
    IN  [status |-> 200, kind |-> "get_remaining",
         remaining |-> remaining, resetTime |-> resetTime,
         message |-> <<"remaining", remaining, type, resetTime>>,
         suspicious |-> isSuspicious]

\* Variant: only a body without the userId field is refused
NoUserIdField(r) == r.userId = "absent"

\* if (!userId): the field is missing ("absent") or the empty string
NoUserId(r) == r.userId \in {"", "absent"}

\* const { ..., type = 'comments' } = req.body
TypeOf(r) == IF r.type = "absent" THEN "comments" ELSE r.type

\* Variant: the catch block of handler answers as a refusal
FailOpenRefusing ==
    [status |-> 500, kind |-> "error", error |-> "Internal server error",
     allowed |-> FALSE, remaining |-> 0]

\* The response of the catch block of handler
FailOpen ==
    [status |-> 500, kind |-> "error", error |-> "Internal server error",
     allowed |-> TRUE, remaining |-> 9]

\* try { ... } catch (error) { ... } of handler
Caught(response) == IF response.kind = "thrown" THEN FailOpen ELSE response

\* handler before its try block, and the two checks at its start: the
\* response of a request that is answered at once, or Thrown for a
\* request without a body (the destructuring of req.body throws).  A request
\* that passes has kind "passed".
Passed == [status |-> 0, kind |-> "passed"]

Admission(r) ==
    IF r.method = "OPTIONS" THEN [status |-> 200, kind |-> "end"]
    ELSE IF r.method # "POST"
    THEN [status |-> 405, kind |-> "error", error |-> "Method not allowed"]
    ELSE IF ~r.hasBody THEN Thrown
    ELSE IF NoUserId(r)
    THEN [status |-> 400, kind |-> "error", error |-> "User ID required"]
    ELSE Passed

\* default: of the switch
InvalidActionResponse == [status |-> 400, kind |-> "error", error |-> "Invalid action"]

----------------------------------------------------------------------------
(* The v1.2 server: PersistentStorage keeps one Map in memory, of items
   {value, expires}; it holds the counters and, under suspicious:<ip>, the
   suspicion records.  A number of the source is [nan, n]. *)

NaN == [nan |-> TRUE, n |-> 0]

Number(n) == [nan |-> FALSE, n |-> n]

\* persistentStorage.get(key) || 0 as Math.max takes it: get returns the
\* item, not its value, and an object converts to NaN
PersistentStorageGet(map, key) ==
    IF key \in DOMAIN map THEN NaN ELSE Number(0)

\* persistentStorage.set(key, value, ttl)
PersistentStorageSet(map, key, value, ttl, t) ==
    [k \in DOMAIN map \cup {key} |->
        IF k = key THEN [value |-> value, expires |-> t + ttl] ELSE map[k]]

\* persistentStorage.cleanup()
PersistentStorageCleanup(map, t) ==
    [k \in {x \in DOMAIN map : ~Expired(map[x], t)} |-> map[k]]

\* Math.max of three numbers
MathMax3(a, b, c) ==
    IF a.nan \/ b.nan \/ c.nan THEN NaN ELSE Number(Max3(a.n, b.n, c.n))

\* Math.max(0, a)
MathMax0(a) == IF a.nan THEN NaN ELSE Number(Max2(0, a.n))

\* a + b, a - b and a >= b
Plus(a, b) == IF a.nan \/ b.nan THEN NaN ELSE Number(a.n + b.n)

Minus(a, b) == IF a.nan \/ b.nan THEN NaN ELSE Number(a.n - b.n)

AtLeast(a, b) == ~a.nan /\ ~b.nan /\ a.n >= b.n

\* const dailyLimit = ... of v1.2
dailyLimitV12(type) == IF type = "posts" THEN 2 ELSE 10

----------------------------------------------------------------------------
(* The v1.1 server: two Maps in memory.  dailyLimits holds the identity
   counters under `${key}:${today}` and the strict counts under
   `strict_limit:${clientIP}:${today}`; suspiciousActivity holds, under
   `suspicious:${clientIP}`, the Set of userIds seen from the address.  A key
   is kept as the pieces its template literal joins: the kind, the hashed or
   interpolated text, and the day of its date.  The server's time zone is
   UTC, so that setDate and getDate are setUTCDate and getUTCDate. *)

\* `${primaryKey}:${today}`
IdentityKey(key, date) == [kind |-> "identity", of |-> key.digest, date |-> date]

\* `strict_limit:${clientIP}:${today}`
StrictKey(clientIP, date) == [kind |-> "strict_limit", of |-> clientIP, date |-> date]

\* `suspicious:${clientIP}`
SuspiciousKey(clientIP) == [kind |-> "suspicious", of |-> clientIP]

\* The UTF-16 code unit of a character of an address or of a date
CodeUnit(c) ==
    CASE c = "-" -> 45
      [] c = "." -> 46
      [] c = "0" -> 48 [] c = "1" -> 49 [] c = "2" -> 50 [] c = "3" -> 51
      [] c = "4" -> 52 [] c = "5" -> 53 [] c = "6" -> 54 [] c = "7" -> 55
      [] c = "8" -> 56 [] c = "9" -> 57
      [] c = ":" -> 58
      [] c = "a" -> 97 [] c = "b" -> 98 [] c = "c" -> 99 [] c = "d" -> 100
      [] c = "e" -> 101 [] c = "f" -> 102

DigitChar(n) == <<"0", "1", "2", "3", "4", "5", "6", "7", "8", "9">>[n + 1]

\* n.toString().padStart(2, '0') for n below 100
TwoDigits(n) == <<DigitChar(n \div 10), DigitChar(n % 10)>>

\* toISOString().split('T')[0] of day number d, as characters
IsoText(d) ==
    LET t == d * SecondsPerDay
        y == YearFromTime(t)
    IN  TwoDigits(y \div 100) \o TwoDigits(y % 100) \o Dash
            \o TwoDigits(MonthFromTime(t) + 1) \o Dash \o TwoDigits(DateFromTime(t))

\* a < b of two strings: by code units, a proper prefix being the smaller
RECURSIVE StringLess(_, _)
StringLess(a, b) ==
    IF b = <<>> THEN FALSE
    ELSE IF a = <<>> THEN TRUE
    ELSE IF CodeUnit(Head(a)) # CodeUnit(Head(b))
    THEN CodeUnit(Head(a)) < CodeUnit(Head(b))
    ELSE StringLess(Tail(a), Tail(b))

\* text.split(':') of the characters of text
RECURSIVE SplitColon(_)
SplitColon(text) ==
    IF \A i \in 1..Len(text) : text[i] # ":"
    THEN <<text>>
    ELSE LET i == CHOOSE j \in 1..Len(text) :
                      text[j] = ":" /\ \A k \in 1..(j - 1) : text[k] # ":"
         IN  <<SubSeq(text, 1, i - 1)>> \o SplitColon(SubSeq(text, i + 1, Len(text)))

\* key.split(':'): a hash and a date contain no colon, an address may
KeyFields(key) ==
    LET texts == [i \in 1..Len(SplitColon(key.of)) |->
                     [is |-> "text", text |-> SplitColon(key.of)[i], day |-> 0]]
    IN  CASE key.kind = "identity" ->
               <<[is |-> "hash", text |-> key.of, day |-> 0],
                 [is |-> "date", text |-> <<>>, day |-> key.date]>>
          [] key.kind = "strict_limit" ->
               <<[is |-> "literal", text |-> <<>>, day |-> 0]>> \o texts
                   \o <<[is |-> "date", text |-> <<>>, day |-> key.date]>>
          [] key.kind = "suspicious" ->
               <<[is |-> "literal", text |-> <<>>, day |-> 0]>> \o texts

\* key.split(':')[n], undefined beyond the last field
KeyField(key, n) ==
    IF n + 1 <= Len(KeyFields(key)) THEN KeyFields(key)[n + 1]
    ELSE [is |-> "undefined", text |-> <<>>, day |-> 0]

\* date < cutoffDate, cutoffDate being the YYYY-MM-DD of day number cutoff:
\* undefined compares as NaN, two dates compare as their days, a piece of an
\* address compares as a string
FieldBefore(field, cutoff) ==
    CASE field.is = "undefined" -> FALSE
      [] field.is = "date" -> field.day < cutoff
      [] field.is = "text" -> StringLess(field.text, IsoText(cutoff))

\* key.split(':')[2] of a key of dailyLimits
KeyDate(key) == KeyField(key, 2)

\* d.setDate(d.getDate() - n); d.toISOString().split('T')[0], as a day number
DaysAgo(t, n) == utcDate(setUTCDate(t, DateFromTime(t) - n))

\* cleanupOldEntries(): dailyLimits as its first loop leaves it when new
\* Date() of twoDaysAgo reads t, suspiciousActivity as its second loop
\* leaves it when new Date() of sevenDaysAgo reads t
cleanupOldEntries(limits, seen, t) ==
    LET cutoffDate == DaysAgo(t, 2)
        sevenDaysAgo == DaysAgo(t, 7)
    IN  [data |-> [k \in {x \in DOMAIN limits : ~FieldBefore(KeyDate(x), cutoffDate)}
                      |-> limits[k]],
         sdata |-> [k \in {x \in DOMAIN seen :
                              ~FieldBefore(KeyField(x, 1), sevenDaysAgo)}
                      |-> seen[k]]]

\* map.get(key) || 0
MapGet(map, key) == IF key \in DOMAIN map THEN map[key] ELSE 0

\* map.set(key, value)
MapSet(map, key, value) ==
    [k \in DOMAIN map \cup {key} |-> IF k = key THEN value ELSE map[k]]

\* map.delete(key)
MapDelete(map, key) == [k \in DOMAIN map \ {key} |-> map[k]]

StrictLimit == 5

\* currentStrictCount >= 5
StrictReached(currentStrictCount) == currentStrictCount >= StrictLimit

\* checkSuspiciousActivity of v1.1: the Maps it leaves, or thrown
checkSuspiciousActivityV11(limits, seen, clientIP, userId, t) ==
    LET ipKey == SuspiciousKey(clientIP)
        userIds == IF ipKey \in DOMAIN seen THEN seen[ipKey] ELSE {}
        strictKey == StrictKey(clientIP, utcDate(t))
        currentStrictCount == MapGet(limits, strictKey)
        another == userIds # {} /\ userId \notin userIds
    IN  IF another /\ StrictReached(currentStrictCount)
        THEN [thrown |-> TRUE, data |-> limits, sdata |-> seen]
        ELSE [thrown |-> FALSE,
              data |-> IF another
                       THEN MapSet(limits, strictKey, currentStrictCount + 1)
                       ELSE limits,
              sdata |-> MapSet(seen, ipKey, userIds \cup {userId})]

\* The v1.1 limit of every identity
DailyLimitV11 == 10

\* handleCheckAndIncrement of v1.1 up to cleanupOldEntries(): dailyLimits as
\* it leaves it and the response it will send; t is the reading of new
\* Date() for today
handleCheckAndIncrementV11(limits, pk, sk, tk, t) ==
    LET today == utcDate(t)
        currentCount == Max3(MapGet(limits, IdentityKey(pk, today)),
                             MapGet(limits, IdentityKey(sk, today)),
                             MapGet(limits, IdentityKey(tk, today)))
        newCount == currentCount + 1
        w1 == MapSet(limits, IdentityKey(pk, today), newCount)
        w2 == MapSet(w1, IdentityKey(sk, today), newCount)
        w3 == MapSet(w2, IdentityKey(tk, today), newCount)
    IN  IF currentCount >= DailyLimitV11
        THEN [data |-> limits,
              res |-> [status |-> 200, kind |-> "check_and_increment",
                       allowed |-> FALSE, remaining |-> 0, used |-> currentCount]]
        ELSE [data |-> w3,
              res |-> [status |-> 200, kind |-> "check_and_increment",
                       allowed |-> TRUE, remaining |-> DailyLimitV11 - newCount,
                       used |-> newCount]]

\* handleGetRemaining of v1.1
handleGetRemainingV11(limits, pk, sk, tk, t) ==
    LET today == utcDate(t)
        currentCount == Max3(MapGet(limits, IdentityKey(pk, today)),
                             MapGet(limits, IdentityKey(sk, today)),
                             MapGet(limits, IdentityKey(tk, today)))
    IN  [data |-> limits,
         res |-> [status |-> 200, kind |-> "get_remaining",
                  remaining |-> Max2(0, DailyLimitV11 - currentCount),
                  used |-> currentCount, total |-> DailyLimitV11]]

\* handleReset of v1.1
handleResetV11(limits, pk, sk, tk, t) ==
    LET today == utcDate(t)
    IN  [data |-> MapDelete(MapDelete(MapDelete(limits, IdentityKey(pk, today)),
                                      IdentityKey(sk, today)),
                            IdentityKey(tk, today)),
         res |-> [status |-> 200, kind |-> "reset", success |-> TRUE]]

----------------------------------------------------------------------------
(* Requests *)

UserIds == {"u1", "u2", "u3", "u4"}

Body(userId, action, type) == [userId |-> userId, action |-> action, type |-> type]

Context(ip, userAgent, fp) == [ip |-> ip, userAgent |-> userAgent, deviceFingerprint |-> fp]

\* A POST request: the caller's context and the JSON body
Post(c, b) ==
    [method |-> "POST", hasBody |-> TRUE,
     ip |-> c.ip, userAgent |-> c.userAgent,
     deviceFingerprint |-> c.deviceFingerprint,
     userId |-> b.userId, action |-> b.action, type |-> b.type]

Home == Context(IpA, UaBase, FpA)



----------------------------------------------------------------------------
(* The caller: the methods of VercelLimitTracker.  Each sends one request
   with fetch and computes what it returns from the reply: a response of the
   server, a response without a JSON body, or the rejection of fetch. *)

\* fetch rejects with an error carrying message: the request reaches no
\* server and the client has no response
NoReply(message) == [status |-> 0, kind |-> "failed", message |-> message]

\* The messages of the TypeError with which fetch rejects in Chromium and in
\* Firefox
FetchErrors == {"Failed to fetch", "NetworkError when attempting to fetch resource."}

\* A response with status 200 and an empty body, as res.status(200).end()
\* sends
EmptyReply == [status |-> 200, kind |-> "end"]

\* response.ok
Ok(response) == response.status \in 200..299

\* The body of the response is JSON text: response.json() fulfils
HasJson(response) == response.kind \notin {"end", "failed"}

\* The message of the SyntaxError with which response.json() rejects on an
\* empty body
JsonSyntaxError == "Unexpected end of JSON input"

\* await response.json(): the fields of the body
Json(response) == [f \in DOMAIN response \ {"status", "kind"} |-> response[f]]

\* null
Null == [kind |-> "null"]

\* VercelLimitTracker.checkAndIncrement: what the extension is told about
\* the reply to its one fetch.  !response.ok, the parsed body, and the catch
\* block, which reports the message of whatever was thrown.
ClientCheckAndIncrement(response) ==
    IF response.kind = "failed"
    THEN [allowed |-> TRUE, remaining |-> 9, error |-> response.message]
    ELSE IF ~Ok(response)
    THEN [allowed |-> TRUE, remaining |-> 9, error |-> "Failed to check limit"]
    ELSE IF ~HasJson(response)
    THEN [allowed |-> TRUE, remaining |-> 9, error |-> JsonSyntaxError]
    ELSE Json(response)

\* VercelLimitTracker.getRemainingCount: the number the extension is given.
\* result.remaining || 10 is 10 when remaining is 0 or is not in the body.
ClientGetRemainingCount(response) ==
    IF response.kind = "failed" THEN 10
    ELSE IF ~Ok(response) THEN 10
    ELSE IF ~HasJson(response) THEN 10
    ELSE IF "remaining" \notin DOMAIN Json(response) THEN 10
    ELSE IF response.remaining = 0 THEN 10
    ELSE response.remaining

\* VercelLimitTracker.resetDailyLimit: result.success || false
ClientResetDailyLimit(response) ==
    IF response.kind = "failed" THEN FALSE
    ELSE IF ~Ok(response) THEN FALSE
    ELSE IF ~HasJson(response) THEN FALSE
    ELSE IF "success" \notin DOMAIN Json(response) THEN FALSE
    ELSE response.success

\* VercelLimitTracker.getClientIP: result.ip || null
ClientGetClientIP(response) ==
    IF response.kind = "failed" THEN Null
    ELSE IF ~Ok(response) THEN Null
    ELSE IF ~HasJson(response) THEN Null
    ELSE IF "ip" \notin DOMAIN Json(response) THEN Null
    ELSE response.ip

\* The methods of the tracker that call the server, and the action each
\* sends
ClientMethods == {"checkAndIncrement", "getRemainingCount", "resetDailyLimit", "getClientIP"}

ClientAction(method) ==
    CASE method = "checkAndIncrement" -> "check_and_increment"
      [] method = "getRemainingCount" -> "get_remaining"
      [] method = "resetDailyLimit" -> "reset"
      [] method = "getClientIP" -> "get_remaining"

\* What the method returns for the reply
ClientReturns(method, response) ==
    CASE method = "checkAndIncrement" -> ClientCheckAndIncrement(response)
      [] method = "getRemainingCount" -> ClientGetRemainingCount(response)
      [] method = "resetDailyLimit" -> ClientResetDailyLimit(response)
      [] method = "getClientIP" -> ClientGetClientIP(response)
----------------------------------------------------------------------------
(* History kept for the properties: what peek becomes when a request is
   answered.  A run keeps no history (NoPeek), the first get_remaining that
   was handled on its own since the last check_and_increment, with the
   response it got (mode "watch"), or the tally of the check_and_increment
   requests of the home context allowed under one window date, with the
   number of those that were handled while another invocation was under way
   (mode "tally"). *)

NoneGranted == [comments |-> 0, posts |-> 0, other |-> 0]

Watching == [mode |-> "watch", req |-> NoRequest]

Tallying ==
    [mode |-> "tally", req |-> NoRequest, date |-> 0, granted |-> NoneGranted,
     overlapped |-> 0]

\* The tally of window date d
GrantedOn(h, d) == IF h.date = d THEN h.granted ELSE NoneGranted

FromHome(r) ==
    /\ r.ip = IpA
    /\ r.userAgent = UaBase
    /\ r.deviceFingerprint = FpA

Tally(h, c, response) ==
    IF c.r.method = "POST" /\ c.r.hasBody /\ c.r.action = "check_and_increment"
       /\ response.status = 200 /\ response.allowed
    THEN [h EXCEPT !.date = c.date,
                   !.granted = IF FromHome(c.r)
                               THEN [GrantedOn(h, c.date) EXCEPT ![TypeOf(c.r)] = @ + 1]
                               ELSE GrantedOn(h, c.date),
                   !.overlapped = IF FromHome(c.r) /\ c.overlapped THEN @ + 1 ELSE @]
    ELSE h

Remember(h, c, response) ==
    IF c.r.action = "check_and_increment" THEN Watching
    ELSE IF response.status # 200 \/ response.kind # "get_remaining" THEN h
    ELSE IF h.req = NoRequest
    THEN IF c.overlapped THEN h
         ELSE [mode |-> "watch", req |-> c.r, res |-> response, date |-> c.date,
               userIds |-> c.existing.userIds \cup {c.r.userId}, repeats |-> 0]
    ELSE IF h.req = c.r
    THEN [h EXCEPT !.repeats = Min2(2, @ + 1)]
    ELSE h

\* The last call of a method of the tracker: the method, its userId, whether
\* its fetch is still under way, and what it returned
Asked ==
    [mode |-> "client", method |-> "none", userId |-> "", pending |-> FALSE,
     result |-> Null]

\* The reply reaches the method that waits for it, which returns
Returned(h, response) ==
    [h EXCEPT !.pending = FALSE, !.result = ClientReturns(h.method, response)]

Noted(h, c, response) ==
    IF h = NoPeek THEN h
    ELSE IF h.mode = "tally" THEN Tally(h, c, response)
    ELSE IF h.mode = "client" THEN Returned(h, response)
    ELSE Remember(h, c, response)

----------------------------------------------------------------------------
(* Invocations of handler.  At each await an invocation gives way to the
   others.  The methods of the stores do all their work when they are
   called, before the await that follows the call, so a step is the code
   from one await up to and including the next call of a store method.  The
   three awaits of hashString touch nothing that is shared and belong to the
   first step. *)

\* The invocations that have started and not yet answered
InFlight == {j \in DOMAIN calls : calls[j].pc # "idle"}

\* The slots that can take a new invocation
Free == DOMAIN calls \ InFlight

\* The positions between two clock readings of one stretch of code without
\* an await
Unyielding ==
    {"get1", "set1", "set2", "set3", "expires", "limits", "seen"}

\* Invocation i may run: no other invocation is in the middle of a stretch
Turn(i) == \A j \in DOMAIN calls \ {i} : calls[j].pc \notin Unyielding

\* The three counter keys of invocation c
Key1(c) == CounterKey(primaryKey(c.r), c.date, TypeOf(c.r))

Key2(c) == CounterKey(secondaryKey(c.r), c.date, TypeOf(c.r))

Key3(c) == CounterKey(tertiaryKey(c.r), c.date, TypeOf(c.r))

\* const currentCount = Math.max(primaryCount, secondaryCount, tertiaryCount)
CurrentCount(c) == Max3(c.counts[1], c.counts[2], c.counts[3])

\* A new invocation: its request, the state it finds, and whether another
\* invocation is under way
Started(r) ==
    [IdleCall EXCEPT !.r = r,
                     !.at = [storage |-> storage, suspicious |-> suspicious, now |-> now,
                             disk |-> disk],
                     !.overlapped = (InFlight # {})]

\* The invocations when i has started as c
Joined(i, c) ==
    [j \in DOMAIN calls |->
        IF j = i THEN c
        ELSE IF j \in InFlight THEN [calls[j] EXCEPT !.overlapped = TRUE]
        ELSE calls[j]]

\* Invocation i, in state c, sends its response and ends
Answer(i, c, response) ==
    /\ calls' = [Joined(i, c) EXCEPT ![i] = IdleCall]
    /\ req' = c.r
    /\ res' = response
    /\ served' = served + 1
    /\ peek' = Noted(peek, c, response)

\* Invocation i goes on as c
Goes(i, c) ==
    /\ calls' = [calls EXCEPT ![i] = c]
    /\ UNCHANGED <<req, res, served, peek>>

\* Invocation i, in state c, leaves a function that handler awaits: with the
\* response the function sent, or with the exception it threw, which rejects
\* the awaited promise and reaches the catch block of handler in a later job
Settle(i, c, response) ==
    IF response.kind = "thrown"
    THEN Goes(i, [c EXCEPT !.pc = "caught"])
    ELSE Answer(i, c, response)

\* set and get wrote the counter file
Written(ops) ==
    [ops EXCEPT !.set = @ + 1,
                !.written = IF disk.limits = "ok" THEN @ + 1 ELSE @]

\* handler of v1.3 up to the first await: the checks of the request and
\* cleanup(), which reads the clock once; then the template literal of the
\* primary key, which throws for a deviceFingerprint that cannot be
\* converted to a string
Arrive(i, r) ==
    /\ server = "v1.3"
    /\ i \in Free
    /\ Turn(i)
    /\ LET swept == Cleanup(disk.limits, storage, now)
           c == [Started(r) EXCEPT !.ops.cleanup = 1,
                                   !.ops.written = IF swept # storage THEN 1 ELSE 0]
       IN  IF Admission(r) # Passed
           THEN /\ storage' = storage
                /\ Answer(i, Started(r), Caught(Admission(r)))
           ELSE /\ storage' = swept
                /\ IF ~Printable(r.deviceFingerprint)
                   THEN Answer(i, c, Caught(Thrown))
                   ELSE /\ calls' = Joined(i, [c EXCEPT !.pc = "getSuspicious"])
                        /\ UNCHANGED <<req, res, served, peek>>
    /\ UNCHANGED <<suspicious, now, disk, server>>

\* checkSuspiciousActivity: await storage.getSuspicious(clientIP)
ReadSuspicion(i) ==
    /\ calls[i].pc = "getSuspicious"
    /\ Turn(i)
    /\ Goes(i, [calls[i] EXCEPT
                    !.existing = GetSuspicious(disk.suspects, suspicious, calls[i].r.ip),
                    !.ops.getSuspicious = @ + 1,
                    !.pc = "setSuspicious"])
    /\ UNCHANGED <<storage, suspicious, now, disk, server>>

\* checkSuspiciousActivity: await storage.setSuspicious(clientIP, ...), with
\* the clock read for lastSeen
WriteSuspicion(i) ==
    /\ calls[i].pc = "setSuspicious"
    /\ Turn(i)
    /\ LET c == calls[i]
       IN  /\ suspicious' =
                 SetSuspicious(disk.suspects, suspicious, c.r.ip,
                     ObservedRecord(c.existing, c.r.userId, now))
           /\ Goes(i, [c EXCEPT
                    !.isSuspicious = checkSuspiciousActivity(c.existing, c.r.userId),
                    !.ops.setSuspicious = @ + 1,
                    !.pc = "switch"])
    /\ UNCHANGED <<storage, now, disk, server>>

\* switch (action), and const now = new Date() of handleCheckAndIncrement and
\* of handleGetRemaining
Dispatch(i) ==
    /\ calls[i].pc = "switch"
    /\ Turn(i)
    /\ LET c == calls[i]
       IN  IF c.r.action \in {"check_and_increment", "get_remaining"}
           THEN Goes(i, [c EXCEPT !.date = utcDate(now), !.pc = "get1"])
           ELSE Answer(i, c, InvalidActionResponse)
    /\ UNCHANGED <<storage, suspicious, now, disk, server>>

\* handleCheckAndIncrement, handleGetRemaining: the n-th await
\* storage.get(...); get reads the clock when it finds an item
ReadCount(i, n) ==
    /\ calls[i].pc = <<"get1", "get2", "get3">>[n]
    /\ Turn(i)
    /\ LET c == calls[i]
           key == <<Key1(c), Key2(c), Key3(c)>>[n]
           data == StorageGetData(disk.limits, storage, key, now)
       IN  /\ storage' = data
           /\ Goes(i, [c EXCEPT
                    !.counts[n] = StorageGetValue(disk.limits, storage, key, now),
                    !.ops.get = @ + 1,
                    !.ops.written = IF data # storage THEN @ + 1 ELSE @,
                    !.pc = <<"get2", "get3", "max">>[n]])
    /\ UNCHANGED <<suspicious, now, disk, server>>

\* handleCheckAndIncrement: Math.max and the comparison with the limit, then
\* the response of a request at its limit (getNextResetTime reads the
\* clock), or Date.now() of the first storage.set
Decide(i) ==
    /\ calls[i].pc = "max"
    /\ calls[i].r.action = "check_and_increment"
    /\ Turn(i)
    /\ LET c == calls[i]
           type == TypeOf(c.r)
       IN  IF LimitReached(CurrentCount(c), dailyLimit(type, c.isSuspicious))
           THEN Answer(i, c, handleCheckAndIncrementReached(type, c.isSuspicious, now))
           ELSE Goes(i, [c EXCEPT !.stamp = now, !.pc = "set1"])
    /\ UNCHANGED <<storage, suspicious, now, disk, server>>

\* Date.now() of the second and of the third storage.set
Stamp(i, n) ==
    /\ calls[i].pc = <<"now1", "now2", "now3">>[n]
    /\ Turn(i)
    /\ Goes(i, [calls[i] EXCEPT !.stamp = now, !.pc = <<"set1", "set2", "set3">>[n]])
    /\ UNCHANGED <<storage, suspicious, now, disk, server>>

\* Variant: the secondary key is not written
WriteSkippingSecond(i, n) ==
    /\ calls[i].pc = <<"set1", "set2", "set3">>[n]
    /\ Turn(i)
    /\ LET c == calls[i]
           key == <<Key1(c), Key2(c), Key3(c)>>[n]
       IN  /\ storage' = IF n = 2 THEN storage
                         ELSE StorageSet(disk.limits, storage, key, CurrentCount(c) + 1,
                                         86400, c.stamp, now)
           /\ Goes(i, [c EXCEPT !.ops = IF n = 2 THEN @ ELSE Written(@),
                                !.pc = <<"now2", "now3", "respond">>[n]])
    /\ UNCHANGED <<suspicious, now, disk, server>>

\* handleCheckAndIncrement: the n-th await storage.set, from new Date() for
\* the timestamp on
Write(i, n) ==
    /\ calls[i].pc = <<"set1", "set2", "set3">>[n]
    /\ Turn(i)
    /\ LET c == calls[i]
           key == <<Key1(c), Key2(c), Key3(c)>>[n]
       IN  /\ storage' = StorageSet(disk.limits, storage, key, CurrentCount(c) + 1,
                                    86400, c.stamp, now)
           /\ Goes(i, [c EXCEPT !.ops = Written(@),
                                !.pc = <<"now2", "now3", "respond">>[n]])
    /\ UNCHANGED <<suspicious, now, disk, server>>

\* handleCheckAndIncrement after the third set: getNextResetTime and the
\* response
Respond(i) ==
    /\ calls[i].pc = "respond"
    /\ Turn(i)
    /\ LET c == calls[i]
       IN  Settle(i, c, handleCheckAndIncrement(CurrentCount(c), TypeOf(c.r),
                                               c.isSuspicious, now))
    /\ UNCHANGED <<storage, suspicious, now, disk, server>>

\* handleGetRemaining after the third get: Math.max, the clamped difference,
\* getNextResetTime and the response
Report(i) ==
    /\ calls[i].pc = "max"
    /\ calls[i].r.action = "get_remaining"
    /\ Turn(i)
    /\ LET c == calls[i]
       IN  Settle(i, c, handleGetRemaining(CurrentCount(c), TypeOf(c.r),
                                          c.isSuspicious, now))
    /\ UNCHANGED <<storage, suspicious, now, disk, server>>

\* handler: catch (error) after an await that rejected, in v1.3, v1.2 and
\* v1.1 alike
Catch(i) ==
    /\ calls[i].pc = "caught"
    /\ Turn(i)
    /\ Answer(i, calls[i], Caught(Thrown))
    /\ UNCHANGED <<storage, suspicious, now, disk, server>>

\* The wall clock moves on, between any two steps
Tick(t) ==
    /\ t > now
    /\ now' = t
    /\ UNCHANGED <<storage, suspicious, req, res, served, peek, disk, server, calls>>

\* A file starts or stops failing
Degrade(d) ==
    /\ d # disk
    /\ disk' = d
    /\ UNCHANGED <<storage, suspicious, now, req, res, served, peek, server, calls>>

\* The steps of the invocations of v1.3 that have started
Observations == \E i \in DOMAIN calls : ReadSuspicion(i) \/ WriteSuspicion(i)

Dispatches == \E i \in DOMAIN calls : Dispatch(i)

Reads == \E i \in DOMAIN calls, n \in 1..3 : ReadCount(i, n)

Writes == \E i \in DOMAIN calls : Decide(i) \/ (\E n \in 1..3 : Write(i, n))
              \/ (\E n \in 2..3 : Stamp(i, n)) \/ Respond(i) \/ Catch(i)

Reports == \E i \in DOMAIN calls : Report(i)

\* handler is an async function on the event loop of Node: once started it
\* goes on whenever it is not waiting
Proceeds == Observations \/ Dispatches \/ Reads \/ Writes \/ Reports

----------------------------------------------------------------------------
(* Invocations of the v1.2 handler.  The methods of PersistentStorage work
   on a Map in memory when they are called; get reads no clock and changes
   nothing, set reads the clock once. *)

\* await persistentStorage.get(suspiciousKey) || { userIds: new Set(), count: 0 }:
\* for an address on record it is the item {value, expires}
ExistingActivityV12(smap, clientIP) ==
    IF clientIP \in DOMAIN smap THEN smap[clientIP]
    ELSE [userIds |-> {}, count |-> 0]

\* new Set(existingActivity.userIds || []) with userId added: an item has no
\* userIds
UserIdsV12(existingActivity, userId) ==
    (IF "userIds" \in DOMAIN existingActivity THEN existingActivity.userIds ELSE {})
        \cup {userId}

\* const currentCount = Math.max(...) of v1.2
CurrentCountV12(c) == MathMax3(c.counts[1], c.counts[2], c.counts[3])

\* handler of v1.2 up to the first await: the checks of the request and
\* persistentStorage.cleanup(), which reads the clock once
ArriveV12(i, r) ==
    /\ server = "v1.2"
    /\ i \in Free
    /\ Turn(i)
    /\ IF Admission(r) # Passed
       THEN /\ UNCHANGED <<storage, suspicious>>
            /\ Answer(i, Started(r), Caught(Admission(r)))
       ELSE /\ storage' = PersistentStorageCleanup(storage, now)
            /\ suspicious' = PersistentStorageCleanup(suspicious, now)
            /\ IF ~Printable(r.deviceFingerprint)
               THEN Answer(i, Started(r), Caught(Thrown))
               ELSE /\ calls' = Joined(i, [Started(r) EXCEPT !.pc = "get"])
                    /\ UNCHANGED <<req, res, served, peek>>
    /\ UNCHANGED <<now, disk, server>>

\* checkSuspiciousActivity: await persistentStorage.get(suspiciousKey)
ReadSuspicionV12(i) ==
    /\ calls[i].pc = "get"
    /\ Turn(i)
    /\ Goes(i, [calls[i] EXCEPT
                    !.existing = ExistingActivityV12(suspicious, calls[i].r.ip),
                    !.pc = "lastSeen"])
    /\ UNCHANGED <<storage, suspicious, now, disk, server>>

\* checkSuspiciousActivity: new Date() for lastSeen, in the argument of set
SeenV12(i) ==
    /\ calls[i].pc = "lastSeen"
    /\ Turn(i)
    /\ Goes(i, [calls[i] EXCEPT !.stamp = now, !.pc = "expires"])
    /\ UNCHANGED <<storage, suspicious, now, disk, server>>

\* checkSuspiciousActivity: await persistentStorage.set(suspiciousKey, ...,
\* 86400), from Date.now() for expires on
WriteSuspicionV12(i) ==
    /\ calls[i].pc = "expires"
    /\ Turn(i)
    /\ LET c == calls[i]
           userIds == UserIdsV12(c.existing, c.r.userId)
       IN  /\ suspicious' =
                 PersistentStorageSet(suspicious, c.r.ip,
                     [userIds |-> userIds, count |-> Cardinality(userIds),
                      lastSeen |-> c.stamp], 86400, now)
           /\ Goes(i, [c EXCEPT !.pc = "switchV12"])
    /\ UNCHANGED <<storage, now, disk, server>>

\* switch (action), const now = new Date() of the function called and its
\* first await persistentStorage.get(...)
DispatchV12(i) ==
    /\ calls[i].pc = "switchV12"
    /\ Turn(i)
    /\ LET c == calls[i]
           d == [c EXCEPT !.date = utcDate(now)]
       IN  IF c.r.action \in {"check_and_increment", "get_remaining"}
           THEN Goes(i, [d EXCEPT !.counts[1] = PersistentStorageGet(storage, Key1(d)),
                                  !.pc = "get2V12"])
           ELSE Answer(i, c, InvalidActionResponse)
    /\ UNCHANGED <<storage, suspicious, now, disk, server>>

\* The second and the third await persistentStorage.get(...)
ReadCountV12(i, n) ==
    /\ calls[i].pc = <<"get1V12", "get2V12", "get3V12">>[n]
    /\ Turn(i)
    /\ LET c == calls[i]
           key == <<Key1(c), Key2(c), Key3(c)>>[n]
       IN  Goes(i, [c EXCEPT !.counts[n] = PersistentStorageGet(storage, key),
                             !.pc = <<"get2V12", "get3V12", "maxV12">>[n]])
    /\ UNCHANGED <<storage, suspicious, now, disk, server>>

\* The response of v1.2 to a request at its limit
handleCheckAndIncrementReachedV12(type, t) ==
    LET limit == Number(dailyLimitV12(type))
        resetTime == getNextResetTime(t)
    IN  [status |-> 200, kind |-> "check_and_increment",
         allowed |-> FALSE, remaining |-> Number(0), resetTime |-> resetTime,
         message |-> <<"limit reached", limit, type, resetTime>>]

\* The response of v1.2 after the three sets
handleCheckAndIncrementV12(currentCount, type, t) ==
    LET limit == Number(dailyLimitV12(type))
        remaining == Minus(limit, Plus(currentCount, Number(1)))
        resetTime == getNextResetTime(t)
    IN  IF ~HasCharAt(type) THEN Thrown
        ELSE [status |-> 200, kind |-> "check_and_increment",
              allowed |-> TRUE, remaining |-> remaining, resetTime |-> resetTime,
              message |-> <<"generated", remaining, type, resetTime>>]

\* The response of handleGetRemaining of v1.2
handleGetRemainingV12(currentCount, type, t) ==
    LET limit == Number(dailyLimitV12(type))
        remaining == MathMax0(Minus(limit, currentCount))
        resetTime == getNextResetTime(t)
    IN  [status |-> 200, kind |-> "get_remaining",
         remaining |-> remaining, resetTime |-> resetTime,
         message |-> <<"remaining", remaining, type, resetTime>>]

\* handleCheckAndIncrement of v1.2: Math.max and the comparison with the
\* limit, then the response of a request at its limit, or the first await
\* persistentStorage.set(...)
DecideV12(i) ==
    /\ calls[i].pc = "maxV12"
    /\ calls[i].r.action = "check_and_increment"
    /\ Turn(i)
    /\ LET c == calls[i]
           type == TypeOf(c.r)
       IN  IF AtLeast(CurrentCountV12(c), Number(dailyLimitV12(type)))
           THEN /\ Answer(i, c, handleCheckAndIncrementReachedV12(type, now))
                /\ UNCHANGED storage
           ELSE /\ storage' = PersistentStorageSet(storage, Key1(c),
                                  Plus(CurrentCountV12(c), Number(1)), 86400, now)
                /\ Goes(i, [c EXCEPT !.pc = "set2V12"])
    /\ UNCHANGED <<suspicious, now, disk, server>>

\* The second and the third await persistentStorage.set(...)
WriteV12(i, n) ==
    /\ calls[i].pc = <<"set1V12", "set2V12", "set3V12">>[n]
    /\ Turn(i)
    /\ LET c == calls[i]
           key == <<Key1(c), Key2(c), Key3(c)>>[n]
       IN  /\ storage' = PersistentStorageSet(storage, key,
                             Plus(CurrentCountV12(c), Number(1)), 86400, now)
           /\ Goes(i, [c EXCEPT !.pc = <<"set2V12", "set3V12", "respondV12">>[n]])
    /\ UNCHANGED <<suspicious, now, disk, server>>

\* handleCheckAndIncrement of v1.2 after the third set
RespondV12(i) ==
    /\ calls[i].pc = "respondV12"
    /\ Turn(i)
    /\ LET c == calls[i]
       IN  Settle(i, c, handleCheckAndIncrementV12(CurrentCountV12(c),
                                                  TypeOf(c.r), now))
    /\ UNCHANGED <<storage, suspicious, now, disk, server>>

\* handleGetRemaining of v1.2 after the third get
ReportV12(i) ==
    /\ calls[i].pc = "maxV12"
    /\ calls[i].r.action = "get_remaining"
    /\ Turn(i)
    /\ LET c == calls[i]
       IN  Answer(i, c, handleGetRemainingV12(CurrentCountV12(c), TypeOf(c.r), now))
    /\ UNCHANGED <<storage, suspicious, now, disk, server>>

ObservationsV12 ==
    \E i \in DOMAIN calls : ReadSuspicionV12(i) \/ SeenV12(i) \/ WriteSuspicionV12(i)

ReadsV12 == \E i \in DOMAIN calls : DispatchV12(i) \/ (\E n \in 2..3 : ReadCountV12(i, n))

WritesV12 ==
    \E i \in DOMAIN calls : DecideV12(i) \/ (\E n \in 2..3 : WriteV12(i, n)) \/ RespondV12(i)
                             \/ Catch(i)

ReportsV12 == \E i \in DOMAIN calls : ReportV12(i)

ProceedsV12 == ObservationsV12 \/ ReadsV12 \/ WritesV12 \/ ReportsV12

----------------------------------------------------------------------------
(* Invocations of the v1.1 handler.  checkSuspiciousActivity and the three
   handle functions contain no await: each runs from its call to its end. *)

\* handler of v1.1 up to the first await: the checks of the request
ArriveV11(i, r) ==
    /\ server = "v1.1"
    /\ i \in Free
    /\ Turn(i)
    /\ IF Admission(r) # Passed
       THEN Answer(i, Started(r), Caught(Admission(r)))
       ELSE IF ~Printable(r.deviceFingerprint)
       THEN Answer(i, Started(r), Caught(Thrown))
       ELSE /\ calls' = Joined(i, [Started(r) EXCEPT !.pc = "check"])
            /\ UNCHANGED <<req, res, served, peek>>
    /\ UNCHANGED <<storage, suspicious, now, disk, server>>

\* checkSuspiciousActivity(clientIP, userId), called by handler after the
\* last hashString: it runs to its end or to its throw, and handler awaits
\* its promise
CheckV11(i) ==
    /\ calls[i].pc = "check"
    /\ Turn(i)
    /\ LET c == calls[i]
           observed == checkSuspiciousActivityV11(storage, suspicious, c.r.ip,
                                                  c.r.userId, now)
       IN  /\ storage' = observed.data
           /\ suspicious' = observed.sdata
           /\ IF observed.thrown
              THEN Goes(i, [c EXCEPT !.pc = "caught"])
              ELSE Goes(i, [c EXCEPT !.pc = "switchV11"])
    /\ UNCHANGED <<now, disk, server>>

\* switch (action) and the function it calls, up to cleanupOldEntries()
HandleV11(i) ==
    /\ calls[i].pc = "switchV11"
    /\ Turn(i)
    /\ LET c == [calls[i] EXCEPT !.date = utcDate(now)]
           pk == primaryKey(c.r)
           sk == secondaryKey(c.r)
           tk == tertiaryKey(c.r)
           out == CASE c.r.action = "check_and_increment" ->
                         handleCheckAndIncrementV11(storage, pk, sk, tk, now)
                    [] c.r.action = "get_remaining" ->
                         handleGetRemainingV11(storage, pk, sk, tk, now)
                    [] c.r.action = "reset" ->
                         handleResetV11(storage, pk, sk, tk, now)
                    [] OTHER -> [data |-> storage, res |-> InvalidActionResponse]
       IN  /\ storage' = out.data
           /\ IF out.res.status = 200 /\ out.res.kind = "check_and_increment"
                 /\ out.res.allowed
              THEN Goes(i, [c EXCEPT !.res = out.res, !.pc = "limits"])
              ELSE Answer(i, c, out.res)
    /\ UNCHANGED <<suspicious, now, disk, server>>

\* cleanupOldEntries(): new Date() of twoDaysAgo and the loop over dailyLimits
SweepLimitsV11(i) ==
    /\ calls[i].pc = "limits"
    /\ Turn(i)
    /\ storage' = cleanupOldEntries(storage, suspicious, now).data
    /\ Goes(i, [calls[i] EXCEPT !.pc = "seen"])
    /\ UNCHANGED <<suspicious, now, disk, server>>

\* cleanupOldEntries(): new Date() of sevenDaysAgo and the loop over
\* suspiciousActivity; then the response of handleCheckAndIncrement
SweepSeenV11(i) ==
    /\ calls[i].pc = "seen"
    /\ Turn(i)
    /\ suspicious' = cleanupOldEntries(storage, suspicious, now).sdata
    /\ Answer(i, [calls[i] EXCEPT !.res = NoResponse], calls[i].res)
    /\ UNCHANGED <<storage, now, disk, server>>

ProceedsV11 ==
    \E i \in DOMAIN calls : CheckV11(i) \/ HandleV11(i) \/ SweepLimitsV11(i) \/ SweepSeenV11(i)
                             \/ Catch(i)

----------------------------------------------------------------------------
(* The system *)

\* The three counter keys of request r under window date d
KeysOn(r, d) ==
    {<<primaryKey(r), d, TypeOf(r)>>,
     <<secondaryKey(r), d, TypeOf(r)>>,
     <<tertiaryKey(r), d, TypeOf(r)>>}

\* The three counter keys of request r at instant t
KeysOf(r, t) == KeysOn(r, utcDate(t))

\* The files are kept across restarts (the constructor creates them only when
\* they are missing), so a run starts from whatever earlier runs left.
\* Counted(r, n, t) is the counter file after n check_and_increment requests
\* like r were allowed at instant t: storage.set wrote n under the three keys.
Counted(r, n, t) ==
    [k \in KeysOf(r, t) |-> [value |-> n, expires |-> t + 86400, timestamp |-> t]]

\* SeenThree is the suspicion file after three get_remaining requests of
\* u1, u2 and u3 from the home address at 12:00:00 of day 0.
SeenThree ==
    (IpA :> [userIds |-> {"u1", "u2", "u3"}, count |-> 3, lastSeen |-> 43200])

\* The lowest slot that can take a new invocation
Slot == CHOOSE i \in Free : \A j \in Free : i <= j

\* A run of server v that finds counter file F and suspicion file S at
\* instant t, with history h
Begin(v, F, S, t, h) ==
    /\ storage = F
    /\ suspicious = S
    /\ now = t
    /\ req = NoRequest
    /\ res = NoResponse
    /\ served = 0
    /\ peek = h
    /\ disk = Healthy
    /\ server = v
    /\ calls = NoCalls

\* Request r arrives at the v1.3 server, whatever else it is handling
Handle(r) ==
    /\ served + Cardinality(InFlight) < MaxRequests
    /\ Free # {}
    /\ Arrive(Slot, r)

Advance == \E t \in Instants : Tick(t)

\* The steps of a check_and_increment or an invalid action of v1.3
Consumes == Observations \/ Dispatches \/ Reads \/ Writes

\* Comments and posts of the home context, comments from another browser
\* behind the home address, and posts of the home context under another
\* userId
HomeComments == Post(Home, Body("u1", "check_and_increment", "comments"))

HomePosts == Post(Home, Body("u1", "check_and_increment", "posts"))

Requests ==
    {HomeComments, HomePosts,
     Post(Context(IpA, UaHead, FpA), Body("u1", "check_and_increment", "comments")),
     Post(Home, Body("u4", "check_and_increment", "posts"))}

\* The home caller has had two comments today
Init == Begin("v1.3", Counted(HomeComments, 2, 43200), <<>>, 43200, NoPeek)

Request == \E r \in Requests : Handle(r)

Next == Request \/ Consumes \/ Advance

Spec == Init /\ [][Next]_vars

----------------------------------------------------------------------------
(* The home caller on day 1, one or both posts of the day used, with the
   entries of day 0 still on file; they expire at 12:00:00 of day 1 *)

PeekPosts == Post(Home, Body("u1", "get_remaining", "posts"))

ResetComments == Post(Home, Body("u1", "reset", "comments"))

Anonymous == Post(Home, Body("", "check_and_increment", "comments"))

\* The body has no userId field
Unnamed == Post(Home, Body("absent", "check_and_increment", "comments"))

ExpiryRequests == {HomePosts, PeekPosts, ResetComments, Anonymous, Unnamed}

\* Day 1 00:00:01 and day 1 12:00:01
ExpiryInstants == {86401, 129601}

InitExpiry ==
    \E n \in 1..2 :
        Begin("v1.3", Counted(HomePosts, 2, 43200) @@ Counted(HomePosts, n, 86401),
              <<>>, 86401, NoPeek)

AdvanceExpiry == \E t \in ExpiryInstants : Tick(t)

NextExpiry == (\E r \in ExpiryRequests : Handle(r)) \/ Proceeds \/ AdvanceExpiry

SpecExpiry == InitExpiry /\ [][NextExpiry]_vars

----------------------------------------------------------------------------
(* One caller repeating one check_and_increment request within day 0, each
   call made when the last has been answered *)

SeqRequests ==
    {Post(c, Body("u1", "check_and_increment", ty)) :
        c \in {Home, Context(IpB, UaBase, FpA)},
        ty \in {"comments", "posts", "other", "absent"}}

\* Day 0 12:00:00, 18:00:00 and 23:59:59
SeqInstants == {43200, 64800, 86399}

InitSeq == Begin("v1.3", <<>>, <<>>, 43200, NoPeek)

Call(r) ==
    /\ served < MaxCalls
    /\ InFlight = {}
    /\ req = NoRequest \/ req = r
    /\ Arrive(Slot, r)

Calls == \E r \in SeqRequests : Call(r)

AdvanceToday == \E t \in SeqInstants : Tick(t)

NextSeq == Calls \/ Consumes \/ AdvanceToday

SpecSeq == InitSeq /\ [][NextSeq]_vars

----------------------------------------------------------------------------
(* Callers of the home address reading and consuming the posts quota, with
   the first get_remaining since the last check_and_increment kept in peek *)

PeekRequests ==
    {PeekPosts, Post(Home, Body("u4", "get_remaining", "posts")), HomePosts}

InitPeek == Begin("v1.3", <<>>, SeenThree, 43200, Watching)

Watch(r) ==
    /\ served + Cardinality(InFlight) < MaxVisits
    /\ Free # {}
    /\ Arrive(Slot, r)

Watched == \E r \in PeekRequests : Watch(r)

NextPeek == Watched \/ Proceeds \/ Advance

SpecPeek == InitPeek /\ [][NextPeek]_vars

----------------------------------------------------------------------------
(* A fourth userId arriving from the home address, which has seen u1, u2
   and u3 *)

SuspectRequests ==
    {HomePosts, HomeComments,
     Post(Home, Body("u4", "check_and_increment", "posts")),
     Post(Home, Body("u4", "get_remaining", "posts")),
     Post(Home, Body("u4", "get_remaining", "comments"))}

\* The counter file is empty, or holds the two posts or the one comment of
\* the home caller
InitSuspect ==
    \E F \in {<<>>, Counted(HomePosts, 2, 43200), Counted(HomeComments, 1, 43200)} :
        Begin("v1.3", F, SeenThree, 43200, NoPeek)

NextSuspect == (\E r \in SuspectRequests : Handle(r)) \/ Proceeds \/ Advance

SpecSuspect == InitSuspect /\ [][NextSuspect]_vars

----------------------------------------------------------------------------
(* The home caller, one post of day 0 used at 12:00:00, around midnight *)

MidnightRequests == {HomePosts, PeekPosts}

\* Day 0 12:00:00 and 23:59:59, day 1 00:00:01
MidnightInstants == {43200, 86399, 86401}

InitMidnight == Begin("v1.3", Counted(HomePosts, 1, 43200), <<>>, 43200, NoPeek)

AdvanceMidnight == \E t \in MidnightInstants : Tick(t)

NextMidnight == (\E r \in MidnightRequests : Handle(r)) \/ Proceeds \/ AdvanceMidnight

SpecMidnight == InitMidnight /\ [][NextMidnight]_vars

----------------------------------------------------------------------------
(* Requests handled while the files fail, and requests that make the handler
   itself fail *)

\* A POST request that carries no body
Bodyless(c) ==
    [method |-> "POST", hasBody |-> FALSE,
     ip |-> c.ip, userAgent |-> c.userAgent, deviceFingerprint |-> NoFingerprint,
     userId |-> "absent", action |-> "absent", type |-> "absent"]

FaultRequests ==
    {HomePosts, PeekPosts,
     Post(Home, Body("u1", "check_and_increment", TypeNumber)),
     Post(Context(IpA, UaBase, FpUnprintable), Body("u1", "get_remaining", "posts")),
     Bodyless(Home)}

\* The conditions of the two files
Disks ==
    {Healthy,
     [limits |-> "unreadable", suspects |-> "ok"],
     [limits |-> "readonly", suspects |-> "ok"],
     [limits |-> "ok", suspects |-> "unreadable"]}

\* The files are in some condition from the start
InitFail ==
    /\ storage = Counted(HomePosts, 2, 43200)
    /\ suspicious = SeenThree
    /\ now = 43200
    /\ req = NoRequest
    /\ res = NoResponse
    /\ served = 0
    /\ peek = NoPeek
    /\ disk \in Disks
    /\ server = "v1.3"
    /\ calls = NoCalls

Faulty == \E r \in FaultRequests : Handle(r)

\* A file that worked starts failing
Degraded == \E d \in Disks : disk = Healthy /\ Degrade(d)

NextFail == Faulty \/ Proceeds \/ Degraded \/ Advance

SpecFail == InitFail /\ [][NextFail]_vars

----------------------------------------------------------------------------
(* The store read on its own: get and cleanup called on the counter file
   that one check_and_increment of the home caller wrote on day 0, while a
   get_remaining of day 0 is handled as the clock passes the expiry of its
   entries *)

\* The counter keys of the home caller's posts on day 0, and one of day 1
ProbeKeys == KeysOn(PeekPosts, 0) \cup {<<primaryKey(PeekPosts), 1, "posts">>}

\* The clock readings of the three set calls that wrote the file: one second
\* before day 0 12:00:00, or that instant
ProbeStamps ==
    {s \in [1..3 -> {43199, 43200}] : s[1] <= s[2] /\ s[2] <= s[3]}

\* The file after the n-th post of the day, written at the instants s
Probe(n, s) ==
    LET key == <<primaryKey(PeekPosts), secondaryKey(PeekPosts), tertiaryKey(PeekPosts)>>
    IN  [k \in KeysOn(PeekPosts, 0) |->
            LET j == CHOOSE j \in 1..3 : key[j] = k[1]
            IN  [value |-> n, expires |-> s[j] + 86400, timestamp |-> s[j]]]

\* Day 0 12:00:00, the instant the last entries expire at, one second later
GetInstants == {43200, 129600, 129601}

InitGet ==
    /\ \E n \in 1..2, s \in ProbeStamps : storage = Probe(n, s)
    /\ suspicious = <<>>
    /\ now = 43200
    /\ req = NoRequest
    /\ res = NoResponse
    /\ served = 0
    /\ peek = NoPeek
    /\ disk \in {Healthy, [limits |-> "readonly", suspects |-> "ok"]}
    /\ server = "v1.3"
    /\ calls = NoCalls

\* storage.get(key)
Get(key) ==
    /\ served + Cardinality(InFlight) < MaxRequests
    /\ storage' = StorageGetData(disk.limits, storage, key, now)
    /\ req' = [method |-> "get", key |-> key]
    /\ res' = [status |-> 0, kind |-> "get",
               value |-> StorageGetValue(disk.limits, storage, key, now)]
    /\ served' = served + 1
    /\ UNCHANGED <<suspicious, now, peek, disk, server, calls>>

\* storage.cleanup()
Sweep ==
    /\ storage' = Cleanup(disk.limits, storage, now)
    /\ req' = [method |-> "cleanup"]
    /\ res' = [status |-> 0, kind |-> "cleanup",
               cleaned |-> CleanupCleaned(disk.limits, storage, now)]
    /\ UNCHANGED <<suspicious, now, served, peek, disk, server, calls>>

Gets == \E key \in ProbeKeys : Get(key)

Peeks == Handle(PeekPosts)

AdvanceGet == \E t \in GetInstants : Tick(t)

NextGet ==
    Gets \/ Sweep \/ Peeks \/ Observations \/ Dispatches \/ Reads \/ Reports \/ AdvanceGet

SpecGet == InitGet /\ [][NextGet]_vars

----------------------------------------------------------------------------
(* Callers of the home address coming back more than a week after its
   suspicion record was written *)

\* Day 1 00:00:01 and one second more than seven days after day 0 12:00:00
WeekInstants == {86401, 43200 + (7 * SecondsPerDay) + 1}

WeekRequests == {HomePosts, PeekPosts, Post(Home, Body("u4", "get_remaining", "posts"))}

InitWeek == Begin("v1.3", <<>>, SeenThree, 43200, NoPeek)

AdvanceWeek == \E t \in WeekInstants : Tick(t)

NextWeek == (\E r \in WeekRequests : Handle(r)) \/ Proceeds \/ AdvanceWeek

SpecWeek == InitWeek /\ [][NextWeek]_vars

----------------------------------------------------------------------------
(* Callers observed by checkSuspiciousActivity: the home address, which has
   seen u1, u2 and u3, and a caller whose x-forwarded-for header names the
   address __proto__ *)

ObservedRequests ==
    {HomePosts,
     Post(Home, Body("u4", "get_remaining", "posts")),
     Post(Home, Body("u2", "get_remaining", "posts")),
     Post(Context(IpProto, UaBase, FpA), Body("u1", "get_remaining", "posts"))}

InitObserve == Begin("v1.3", Counted(HomePosts, 2, 43200), SeenThree, 43200, NoPeek)

NextObserve == (\E r \in ObservedRequests : Handle(r)) \/ Proceeds \/ Advance

SpecObserve == InitObserve /\ [][NextObserve]_vars

----------------------------------------------------------------------------
(* The home caller posting again and again without waiting for the answers:
   up to MaxInFlight invocations of handler are under way together *)

\* The counter file after n posts of the home caller at 12:00:00 of day 0
Posted(n) == IF n = 0 THEN <<>> ELSE Counted(HomePosts, n, 43200)

InitRace ==
    \E n \in 0..2 :
        Begin("v1.3", Posted(n), <<>>, 43200, [Tallying EXCEPT !.granted.posts = n])

Race ==
    /\ served + Cardinality(InFlight) < MaxRacers
    /\ Free # {}
    /\ Arrive(Slot, HomePosts)

NextRace == Race \/ Consumes

SpecRace == InitRace /\ [][NextRace]_vars

----------------------------------------------------------------------------
(* Either persistent-storage server, v1.2 or v1.3, started with an empty
   store and serving the home caller, who waits for each answer before
   sending the next request *)

Servers == {"v1.2", "v1.3"}

BothRequests == {HomePosts, PeekPosts, ResetComments}

InitBoth ==
    /\ storage = <<>>
    /\ suspicious = <<>>
    /\ now = 43200
    /\ req = NoRequest
    /\ res = NoResponse
    /\ served = 0
    /\ peek = NoPeek
    /\ disk = Healthy
    /\ server \in Servers
    /\ calls = NoCalls

Visit(r) ==
    /\ served < MaxVisits
    /\ InFlight = {}
    /\ Arrive(Slot, r) \/ ArriveV12(Slot, r)

Visits == \E r \in BothRequests : Visit(r)

NextBoth == Visits \/ Proceeds \/ ProceedsV12 \/ AdvanceExpiry

SpecBoth == InitBoth /\ [][NextBoth]_vars

----------------------------------------------------------------------------
(* The home caller on the last days of months and years *)

\* new Date(Date.UTC(year, month - 1, date, 0, 0, s)): month counted from 1
DateUTC(year, month, date, s) ==
    (MakeDay(year, month - 1, date) * SecondsPerDay) + s

\* Ends of months of 31, 30, 28 and 29 days, ends of common and of leap
\* years, the leap day of 2000, and days in the middle of a month
ClockDates ==
    {<<1970, 1, 1>>, <<1970, 1, 31>>, <<1970, 2, 28>>, <<1970, 4, 30>>,
     <<1970, 12, 31>>, <<1972, 2, 28>>, <<1972, 2, 29>>, <<1972, 12, 31>>,
     <<1999, 12, 31>>, <<2000, 2, 28>>, <<2000, 2, 29>>, <<2000, 3, 1>>,
     <<2024, 2, 29>>, <<2025, 6, 15>>, <<2025, 12, 31>>, <<2026, 10, 29>>,
     <<2027, 2, 28>>, <<2036, 12, 31>>, <<2037, 11, 30>>}

\* The first and the last second of such a day, and noon
ClockInstants ==
    {DateUTC(d[1], d[2], d[3], s) : d \in ClockDates, s \in {0, 43200, 86399}}

ClockRequests == {HomePosts, PeekPosts}

InitClock ==
    /\ storage = <<>>
    /\ suspicious = <<>>
    /\ now \in ClockInstants
    /\ req = NoRequest
    /\ res = NoResponse
    /\ served = 0
    /\ peek = NoPeek
    /\ disk = Healthy
    /\ server = "v1.3"
    /\ calls = NoCalls

\* The caller waits for each answer
Asking == \E r \in ClockRequests : InFlight = {} /\ Handle(r)

\* The last second of the day passes
Midnight ==
    /\ TimeWithinDay(now) = 86399
    /\ Tick(now + 1)

NextClock == Asking \/ Proceeds \/ Midnight

SpecClock == InitClock /\ [][NextClock]_vars

----------------------------------------------------------------------------
(* The valid requests of the home caller on day 1, each invocation followed
   through its calls of store methods to its response *)

StepRequests == {HomePosts, PeekPosts}

NextSteps == (\E r \in StepRequests : Handle(r)) \/ Proceeds \/ AdvanceExpiry

\* An invocation that has started goes on: Node runs the continuation of
\* every await whose promise has resolved
SpecSteps == InitExpiry /\ [][NextSteps]_vars /\ WF_vars(Proceeds)

----------------------------------------------------------------------------
(* The home context, two contexts that share one key with it and one that
   shares two (its user-agent differs in character 40 only), consuming
   quota one request after the other under changing userIds, on the day on
   which the home caller has had 6 comments allowed; peek keeps the tally of
   the check_and_increment requests of the home context allowed today *)

MixRequests ==
    {Post(Home, Body(u, "check_and_increment", ty)) :
        u \in {"u1", "u4"}, ty \in {"comments", "posts"}}
    \cup {Post(c, Body("u1", "check_and_increment", "comments")) :
             c \in {Context(IpA, UaHead, FpA), Context(IpB, UaBase, FpA),
                    Context(IpA, UaMid, FpA)}}

\* The tally of the current UTC date
GrantedToday == GrantedOn(peek, utcDate(now))

\* The suspicion file after requests of u1 alone from the home address
SeenOne == (IpA :> [userIds |-> {"u1"}, count |-> 1, lastSeen |-> 43200])

\* After n comments of the home caller, all allowed, u1 alone or u1, u2 and
\* u3 being on record for its address
After(n) ==
    /\ storage = Counted(HomeComments, n, 43200)
    /\ suspicious \in {SeenOne, SeenThree}
    /\ now = 43200
    /\ req = NoRequest
    /\ res = NoResponse
    /\ served = n
    /\ peek = [Tallying EXCEPT !.granted.comments = n]
    /\ disk = Healthy
    /\ server = "v1.3"
    /\ calls = NoCalls

InitMix == After(6)

Mix(r) ==
    /\ served < MaxCalls
    /\ InFlight = {}
    /\ Arrive(Slot, r)

Mixed == \E r \in MixRequests : Mix(r)

\* All of it happens on one UTC day
NextMix == Mixed \/ Consumes

SpecMix == InitMix /\ [][NextMix]_vars

----------------------------------------------------------------------------
(* The home caller sending check_and_increment with whatever type it likes,
   on the day on which it has had 10 comments and 1 post allowed *)

TypedRequests ==
    {Post(Home, Body("u1", "check_and_increment", ty)) :
        ty \in {"comments", "posts", "other", "absent"}}

InitTypes ==
    /\ storage = Counted(HomeComments, 10, 43200) @@ Counted(HomePosts, 1, 43200)
    /\ suspicious = SeenOne
    /\ now = 43200
    /\ req = NoRequest
    /\ res = NoResponse
    /\ served = 11
    /\ peek = [Tallying EXCEPT !.granted.comments = 10, !.granted.posts = 1]
    /\ disk = Healthy
    /\ server = "v1.3"
    /\ calls = NoCalls

Typed(r) ==
    /\ served < MaxTyped
    /\ InFlight = {}
    /\ Arrive(Slot, r)

NextTypes == (\E r \in TypedRequests : Typed(r)) \/ Consumes

SpecTypes == InitTypes /\ [][NextTypes]_vars

----------------------------------------------------------------------------
(* The v1.2 server, started with an empty Map, and the home caller consuming
   and reading its quotas on one UTC day, one request after the other *)

OldRequests ==
    {Post(Home, Body("u1", a, ty)) :
        a \in {"check_and_increment", "get_remaining"}, ty \in {"comments", "posts"}}

InitOld == Begin("v1.2", <<>>, <<>>, 43200, Tallying)

Old(r) ==
    /\ served < MaxCalls
    /\ InFlight = {}
    /\ ArriveV12(Slot, r)

NextOld == (\E r \in OldRequests : Old(r)) \/ ProceedsV12

SpecOld == InitOld /\ [][NextOld]_vars

----------------------------------------------------------------------------
(* The v1.1 server, started with empty Maps, and callers that declare one
   userId after another from one address *)

ManyUserIds == {"u1", "u2", "u3", "u4", "u5", "u6", "u7"}

\* Every userId reads the quota from the documentation address, and the
\* first and the last also consume it
StrictRequests ==
    {Post(Context(IpDoc, UaBase, FpA), Body(u, "get_remaining", "absent")) :
        u \in ManyUserIds}
    \cup {Post(Context(IpDoc, UaBase, FpA), Body(u, "check_and_increment", "absent")) :
        u \in {"u1", "u7"}}

InitStrict == Begin("v1.1", <<>>, <<>>, DateUTC(2024, 3, 1, 43200), NoPeek)

Strict(r) ==
    /\ served < MaxStrict
    /\ InFlight = {}
    /\ ArriveV11(Slot, r)

NextStrict == (\E r \in StrictRequests : Strict(r)) \/ ProceedsV11

SpecStrict == InitStrict /\ [][NextStrict]_vars

----------------------------------------------------------------------------
(* The v1.1 server over the five days from 2024-02-27 to 2024-03-02, serving
   two userIds from an IPv4 and from an IPv6 address *)

SweepInstants ==
    {DateUTC(2024, 2, 27, 43200), DateUTC(2024, 2, 28, 43200),
     DateUTC(2024, 2, 29, 43200), DateUTC(2024, 3, 1, 43200),
     DateUTC(2024, 3, 2, 43200)}

SweepRequests ==
    {Post(Context(ip, UaBase, FpA), Body(u, a, "absent")) :
        ip \in {IpDoc, IpSix}, u \in {"u1", "u2"},
        a \in {"check_and_increment", "get_remaining"}}
    \cup {Post(Context(IpDoc, UaBase, FpA), Body("u1", "reset", "absent"))}

InitSweep == Begin("v1.1", <<>>, <<>>, DateUTC(2024, 2, 27, 43200), NoPeek)

Swept(r) ==
    /\ served < MaxSweep
    /\ InFlight = {}
    /\ ArriveV11(Slot, r)

DayPasses == \E t \in SweepInstants : Tick(t)

NextSweep == (\E r \in SweepRequests : Swept(r)) \/ ProceedsV11 \/ DayPasses

SpecSweep == InitSweep /\ [][NextSweep]_vars

----------------------------------------------------------------------------
(* The extension's tracker calling the v1.3 server on the day on which the
   home caller has had 9 or 10 comments allowed *)

\* The requests of the client: it sends userId, action and deviceFingerprint
\* and no type
ClientRequest(userId, action) == Post(Home, Body(userId, action, "absent"))

ClientUserIds == {"u1", ""}

\* tracker.<method>(userId), called when the call before has returned: it
\* builds the request and calls fetch
ClientCalls(method, userId) ==
    /\ served < MaxCalls
    /\ InFlight = {}
    /\ ~peek.pending
    /\ peek' = [mode |-> "client", method |-> method, userId |-> userId,
                pending |-> TRUE, result |-> Null]
    /\ UNCHANGED <<storage, suspicious, now, req, res, served, disk, server, calls>>

\* The request of the pending call reaches handler
ClientSends ==
    /\ peek.pending
    /\ InFlight = {}
    /\ Arrive(Slot, ClientRequest(peek.userId, ClientAction(peek.method)))

\* The pending call gets no response of handler: fetch rejects, or resolves
\* with a response that has no JSON body
ClientUnanswered(reply) ==
    /\ peek.pending
    /\ InFlight = {}
    /\ req' = ClientRequest(peek.userId, ClientAction(peek.method))
    /\ res' = reply
    /\ served' = served + 1
    /\ peek' = Returned(peek, reply)
    /\ UNCHANGED <<storage, suspicious, now, disk, server, calls>>

InitClient ==
    \E n \in 9..10 :
        /\ storage = Counted(HomeComments, n, 43200)
        /\ suspicious = SeenOne
        /\ now = 43200
        /\ req = NoRequest
        /\ res = NoResponse
        /\ served = n
        /\ peek = Asked
        /\ disk = Healthy
        /\ server = "v1.3"
        /\ calls = NoCalls

ClientConsumes == \E u \in ClientUserIds : ClientCalls("checkAndIncrement", u)

ClientAsks == \E u \in ClientUserIds : ClientCalls("getRemainingCount", u)

ClientResets == \E u \in ClientUserIds : ClientCalls("resetDailyLimit", u)

ClientLooksUp == \E u \in ClientUserIds : ClientCalls("getClientIP", u)

ClientOffline == \E m \in FetchErrors : ClientUnanswered(NoReply(m))

ClientBodyless == ClientUnanswered(EmptyReply)

NextClient ==
    \/ ClientConsumes \/ ClientAsks \/ ClientResets \/ ClientLooksUp
    \/ ClientSends \/ ClientOffline \/ ClientBodyless \/ Proceeds

SpecClient == InitClient /\ [][NextClient]_vars

----------------------------------------------------------------------------
(* The table of limits.  The home address has seen u1, u2 and u3, so that u1
   is not suspicious and u4 is; either asks for comments or for posts, to
   consume or to look, each request sent after the answer to the last, on a
   day on which the home caller has had none, 1 or 2 posts and none, 4, 5, 9
   or 10 comments allowed. *)

TableRequests ==
    {Post(Home, Body(u, a, t)) :
        u \in {"u1", "u4"},
        a \in {"check_and_increment", "get_remaining"},
        t \in {"comments", "posts"}}

TablePosts == {<<>>, Counted(HomePosts, 1, 43200), Counted(HomePosts, 2, 43200)}

TableComments ==
    {<<>>} \cup {Counted(HomeComments, n, 43200) : n \in {4, 5, 9, 10}}

InitTable ==
    \E P \in TablePosts, C \in TableComments :
        Begin("v1.3", P @@ C, SeenThree, 43200, NoPeek)

Consult(r) ==
    /\ served < MaxRequests
    /\ InFlight = {}
    /\ Arrive(Slot, r)

NextTable == (\E r \in TableRequests : Consult(r)) \/ Proceeds

SpecTable == InitTable /\ [][NextTable]_vars

----------------------------------------------------------------------------
(* Vocabulary of the properties *)

\* The step answers a request (req' is that request, res' its response)
Handled == served' = served + 1

\* The request is answered in the step in which it arrives
Immediate == \A i \in DOMAIN calls : calls[i].pc = "idle" \/ calls'[i].pc # "idle"

\* The invocation that answers in this step
Answerer == CHOOSE i \in DOMAIN calls : calls[i].pc # "idle" /\ calls'[i].pc = "idle"

\* The files, their condition and the clock as the answered request found
\* them on arrival
Found ==
    IF Immediate
    THEN [storage |-> storage, suspicious |-> suspicious, now |-> now, disk |-> disk]
    ELSE calls[Answerer].at

\* No other invocation ran while the answered request was handled
Alone == IF Immediate THEN InFlight = {} ELSE ~calls[Answerer].overlapped

\* The step answers a request that was handled on its own while the clock
\* stood still and the files stayed in one condition: every reading of the
\* clock gave the instant of arrival
Served == Handled /\ Alone /\ Found.now = now /\ Found.disk = disk

\* The request reaches the switch on action
Evaluated(r) == r.method = "POST" /\ r.hasBody /\ r.userId \notin {"", "absent"}

IsConsume(r) == Evaluated(r) /\ r.action = "check_and_increment"

IsPeek(r) == Evaluated(r) /\ r.action = "get_remaining"

\* The count a read of key k at instant t finds in file content data
Stored(data, k, t) ==
    IF k \in DOMAIN data /\ t <= data[k].expires THEN data[k].value ELSE 0

MaxOf(S) == CHOOSE x \in S : \A y \in S : y <= x

\* The authoritative count of request r: the maximum over its three keys
Authoritative(data, r, t) == MaxOf({Stored(data, k, t) : k \in KeysOf(r, t)})

\* The user ids on record for the address of r once r has been observed
IdsWith(sdata, r) ==
    (IF r.ip \in DOMAIN sdata THEN sdata[r.ip].userIds ELSE {}) \cup {r.userId}

\* The limits of the reference policy
Ceiling(type, suspect) ==
    IF type = "posts" THEN (IF suspect THEN 1 ELSE 2)
    ELSE (IF suspect THEN 5 ELSE 10)

\* The effective limit of request r on suspicion file sdata
Effective(sdata, r) == Ceiling(TypeOf(r), Cardinality(IdsWith(sdata, r)) > 3)

\* The counter entries that have not expired at instant t
Live(data, t) == [k \in {x \in DOMAIN data : t <= data[x].expires} |-> data[k]]

\* The count and the limit the answered request met on arrival
Count == Authoritative(Found.storage, req', Found.now)

Limit == Effective(Found.suspicious, req')

----------------------------------------------------------------------------
(* C1 *)

\* C1: a check_and_increment whose authoritative count (the maximum over its
\* three keys for today and its type) is below the effective limit is
\* answered allowed=true, and afterwards each of the three keys stores the
\* old authoritative count plus 1, which is what a read of any of them finds.
C1_IncrementOnAllKeys ==
    [][(Served /\ IsConsume(req') /\ Count < Limit)
       => /\ res'.kind = "check_and_increment"
          /\ res'.allowed
          /\ \A k \in KeysOf(req', now) :
                /\ k \in DOMAIN storage'
                /\ storage'[k].value = Count + 1
                /\ Stored(storage', k, now') = Count + 1
      ]_vars

\* An allowed increment to 3 that took its old count from one key only:
\* another counter of the same day and type is left at 2.
C1_Witness ==
    /\ IsConsume(req)
    /\ res.allowed
    /\ InFlight = {}
    /\ \A k \in KeysOf(req, now) : k \in DOMAIN storage /\ storage[k].value = 3
    /\ \E k \in DOMAIN storage :
          k[2] = utcDate(now) /\ k[3] = TypeOf(req) /\ storage[k].value = 2

----------------------------------------------------------------------------
(* C2 *)

\* The response of a rejected check_and_increment
Rejection(r) == r.kind = "check_and_increment" /\ ~r.allowed /\ r.remaining = 0

\* C2 as stated: a check_and_increment whose authoritative count has reached
\* the effective limit is answered allowed=false, remaining=0, and no stored
\* counter entry changes.
C2_RejectedLeavesEveryEntry ==
    [][(Served /\ IsConsume(req') /\ Count >= Limit)
       => /\ Rejection(res')
          /\ storage' = Found.storage
      ]_vars

\* C2 amended: the rejected request is answered allowed=false, remaining=0
\* and changes no unexpired counter entry (the sweep at the start of the
\* request removes the entries whose expiry has passed, nothing else);
\* repeating the rejected request on the same day gives the same response
\* and the same stored counts.
C2_RejectedLeavesLiveEntries ==
    [][(Served /\ IsConsume(req') /\ Count >= Limit)
       => /\ Rejection(res')
          /\ storage' = Live(Found.storage, Found.now)
          /\ (req = req' /\ Rejection(res) /\ res.resetTime = res'.resetTime)
                => res' = res
      ]_vars

\* A rejected request repeated right after it was rejected, the entries of
\* the day before swept away
C2_Witness ==
    /\ IsConsume(req)
    /\ Rejection(res)
    /\ served = 2
    /\ InFlight = {}
    /\ now = 129601
    /\ Authoritative(storage, req, now) = 2
    /\ DOMAIN storage = KeysOf(req, now)

----------------------------------------------------------------------------
(* C3 *)

\* C3: from empty files, a caller that is not suspicious repeats one
\* check_and_increment within one UTC day, each call made after the answer
\* to the last: with limit L (10 for comments, 2 for posts) call number
\* n <= L is allowed with remaining L - n, every later call is rejected with
\* remaining 0.
C3_ExactlyLimitCalls ==
    (served > 0 /\ TypeOf(req) \in {"comments", "posts"})
    => LET L == IF TypeOf(req) = "posts" THEN 2 ELSE 10
       IN  /\ res.kind = "check_and_increment"
           /\ res.suspicious = FALSE
           /\ IF served <= L
              THEN res.allowed /\ res.remaining = L - served
              ELSE ~res.allowed /\ res.remaining = 0

\* The eleventh comment of the day, made at 23:59:59, is rejected
C3_Witness ==
    /\ served = 11
    /\ now = 86399
    /\ TypeOf(req) = "comments"
    /\ ~res.allowed
    /\ res.remaining = 0

----------------------------------------------------------------------------
(* C4 *)

\* The request repeats the remembered get_remaining under the same window
\* date
Repeats(r) ==
    /\ peek.req = r
    /\ peek.date = utcDate(now)

SameAnswer(a, b) == a.remaining = b.remaining /\ a.suspicious = b.suspicious

\* C4 as stated: get_remaining changes nothing that is stored, and repeating
\* a get_remaining on the same UTC day with no check_and_increment in
\* between returns the same remaining and suspicious values.
C4_PeekMutatesNothing ==
    [][(Served /\ IsPeek(req'))
       => /\ storage' = Found.storage
          /\ suspicious' = Found.suspicious
          /\ Repeats(req') => SameAnswer(res', peek.res)
      ]_vars

\* C4 amended: get_remaining changes no unexpired counter entry (its sweep
\* removes the expired ones) and in the suspicion file nothing but the record
\* of its address; repeating it on the same UTC day returns the same
\* remaining and suspicious values provided that in between there is no
\* check_and_increment and no new userId is recorded for the address.
C4_PeekKeepsCounters ==
    [][(Served /\ IsPeek(req'))
       => /\ storage' = Live(Found.storage, Found.now)
          /\ DOMAIN suspicious' \subseteq DOMAIN Found.suspicious \cup {req'.ip}
          /\ \A i \in DOMAIN Found.suspicious \ {req'.ip} :
                i \in DOMAIN suspicious' /\ suspicious'[i] = Found.suspicious[i]
          /\ (Repeats(req') /\ IdsWith(Found.suspicious, req') = peek.userIds)
                => SameAnswer(res', peek.res)
      ]_vars

\* A get_remaining answered for the third time on the day of the first, with
\* the same values
C4_Witness ==
    /\ peek.req # NoRequest
    /\ peek.repeats = 2
    /\ req = peek.req
    /\ peek.date = utcDate(now)
    /\ InFlight = {}
    /\ SameAnswer(res, peek.res)

----------------------------------------------------------------------------
(* C5 *)

\* The count that an allowed check_and_increment answered with response a
\* recorded
Recorded(r, a) == Ceiling(TypeOf(r), a.suspicious) - a.remaining

\* C5: a request that differs from the answered request only in its userId
\* derives the same three keys, so after an allowed check_and_increment it
\* sees, on the same UTC day, exactly the count that request recorded.
C5_UserIdRotation ==
    [][(Served /\ Evaluated(req'))
       => \A u \in UserIds :
             LET r2 == [req' EXCEPT !.userId = u]
             IN  /\ primaryKey(r2) = primaryKey(req')
                 /\ secondaryKey(r2) = secondaryKey(req')
                 /\ tertiaryKey(r2) = tertiaryKey(req')
                 /\ (IsConsume(req') /\ res'.allowed)
                       => Authoritative(storage', r2, now') = Recorded(req', res')
      ]_vars

\* u4 is allowed the second and last post of a context whose first post was
\* made as u1
C5_Witness ==
    /\ IsConsume(req)
    /\ req.userId = "u4"
    /\ res.allowed
    /\ res.remaining = 0
    /\ ~res.suspicious
    /\ TypeOf(req) = "posts"
    /\ served = 2
    /\ InFlight = {}
    /\ suspicious[req.ip].userIds = {"u1", "u4"}
    /\ \A k \in KeysOf(req, now) : k \in DOMAIN storage /\ storage[k].value = 2

----------------------------------------------------------------------------
(* C6 *)

FpB == [given |-> TRUE, text |-> <<"g">>]

\* The requests that differ from r in the network address only, in the
\* user-agent only, or in the deviceFingerprint only
OtherAddress(r) == {[r EXCEPT !.ip = i] : i \in {IpA, IpB} \ {r.ip}}

OtherAgent(r) ==
    {[r EXCEPT !.userAgent = a] :
        a \in {UaBase, UaHead, UaMid, UaTail} \ {r.userAgent}}

OtherFingerprint(r) ==
    {[r EXCEPT !.deviceFingerprint = f] :
        f \in {FpA, FpB, NoFingerprint} \ {r.deviceFingerprint}}

\* A request r2 shares a key with the answered request and sees at least
\* the count that request recorded
Collides(r2) ==
    /\ \/ primaryKey(r2) = primaryKey(req')
       \/ secondaryKey(r2) = secondaryKey(req')
       \/ tertiaryKey(r2) = tertiaryKey(req')
    /\ Authoritative(storage', r2, now') >= Recorded(req', res')

\* C6: after an allowed check_and_increment, a request that changes only
\* one factor (the address, the user-agent or the deviceFingerprint) still
\* shares a key with it and sees at least the count it recorded.
C6_SingleFactorEvasion ==
    [][(Served /\ IsConsume(req') /\ res'.allowed)
       => \A r2 \in OtherAddress(req') \cup OtherAgent(req') \cup OtherFingerprint(req') :
             Collides(r2)
      ]_vars

\* What holds of the code: the same for the address and the user-agent
C6_AddressOrAgentEvasion ==
    [][(Served /\ IsConsume(req') /\ res'.allowed)
       => \A r2 \in OtherAddress(req') \cup OtherAgent(req') : Collides(r2)
      ]_vars

----------------------------------------------------------------------------
(* C7 *)

\* The response is the evaluation of request r against limit L, the
\* authoritative count being c
EvaluatedAgainst(r, response, L, c) ==
    IF r.action = "check_and_increment"
    THEN /\ response.allowed = (c < L)
         /\ response.remaining = (IF c < L THEN L - (c + 1) ELSE 0)
    ELSE response.remaining = Max2(0, L - c)

\* C7: the request that brings the distinct userIds of its address to 4 is
\* reported suspicious=true and evaluated against the tightened limit; a
\* request that leaves them at 3 or fewer is reported suspicious=false and
\* evaluated against the base limit.
C7_FourthUserIdTightens ==
    [][(Served /\ (IsConsume(req') \/ IsPeek(req')))
       => LET n == Cardinality(IdsWith(Found.suspicious, req'))
          IN  /\ n = 4 =>
                    /\ res'.suspicious
                    /\ EvaluatedAgainst(req', res', Ceiling(TypeOf(req'), TRUE), Count)
              /\ n <= 3 =>
                    /\ ~res'.suspicious
                    /\ EvaluatedAgainst(req', res', Ceiling(TypeOf(req'), FALSE), Count)
      ]_vars

\* The first request of u4 from an address that has seen u1, u2 and u3 is
\* answered suspicious, with 5 comments remaining
C7_Witness ==
    /\ served = 1
    /\ IsPeek(req)
    /\ TypeOf(req) = "comments"
    /\ res.suspicious
    /\ res.remaining = 5
    /\ InFlight = {}
    /\ suspicious[req.ip].count = 4

----------------------------------------------------------------------------
(* C8 *)

\* C8: the limit is 10 (comments) or 2 (posts), and 5 or 1 for a suspicious
\* caller, in check_and_increment and in get_remaining alike; a suspicious
\* caller with one post counted is refused the next.
C8_LimitTable ==
    [][(Served /\ (IsConsume(req') \/ IsPeek(req'))
          /\ TypeOf(req') \in {"comments", "posts"})
       => LET L == IF TypeOf(req') = "comments"
                   THEN (IF res'.suspicious THEN 5 ELSE 10)
                   ELSE (IF res'.suspicious THEN 1 ELSE 2)
          IN  /\ EvaluatedAgainst(req', res', L, Count)
              /\ (IsConsume(req') /\ TypeOf(req') = "posts"
                    /\ res'.suspicious /\ Count >= 1) => ~res'.allowed
      ]_vars

\* The second post of a suspicious caller is rejected
C8_Witness ==
    /\ served = 2
    /\ IsConsume(req)
    /\ TypeOf(req) = "posts"
    /\ req.userId = "u4"
    /\ res.suspicious
    /\ Rejection(res)
    /\ InFlight = {}
    /\ \A k \in KeysOf(req, now) : k \in DOMAIN storage /\ storage[k].value = 1

----------------------------------------------------------------------------
(* C22 *)

\* C22: remaining is never negative.  get_remaining returns
\* max(0, limit - usedCount), which is 0 when a limit tightened by suspicion
\* lies below the usage on record; an allowed check_and_increment returns
\* limit - (usedCount + 1), which is at least 0.
C22_RemainingNotNegative ==
    [][Handled =>
         /\ (IsPeek(req') \/ (IsConsume(req') /\ res'.status = 200))
               => res'.remaining >= 0
         /\ (Served /\ IsPeek(req'))
               => /\ res'.remaining = Max2(0, Limit - Count)
                  /\ Limit < Count => res'.remaining = 0
         /\ (Served /\ IsConsume(req') /\ res'.allowed)
               => res'.remaining = Limit - (Count + 1)
      ]_vars

\* Two posts are on record and the caller has just become suspicious: its
\* limit is 1 and get_remaining answers 0
C22_Witness ==
    /\ IsPeek(req)
    /\ TypeOf(req) = "posts"
    /\ res.suspicious
    /\ res.remaining = 0
    /\ InFlight = {}
    /\ Authoritative(storage, req, now) = 2

----------------------------------------------------------------------------
(* C9 *)

\* The keys of request r on the day before instant t
KeysOfEve(r, t) == KeysOf(r, t - SecondsPerDay)

\* C9: a check_and_increment with no count recorded under its keys for the
\* current UTC date sees count 0 and is allowed, whatever was recorded under
\* the same keys for earlier dates.
C9_NewDayStartsAtZero ==
    [][(Served /\ IsConsume(req')
          /\ \A k \in KeysOf(req', now) : k \notin DOMAIN Found.storage)
       => /\ res'.kind = "check_and_increment"
          /\ res'.allowed
          /\ res'.remaining = Limit - 1
          /\ \A k \in KeysOf(req', now) :
                k \in DOMAIN storage' /\ storage'[k].value = 1
      ]_vars

\* One second into day 1 a post is allowed although both posts of day 0 are
\* used and still on file
C9_Witness ==
    /\ now = 86401
    /\ IsConsume(req)
    /\ TypeOf(req) = "posts"
    /\ res.allowed
    /\ res.remaining = 1
    /\ InFlight = {}
    /\ \A k \in KeysOf(req, now) : k \in DOMAIN storage /\ storage[k].value = 1
    /\ \A k \in KeysOfEve(req, now) : k \in DOMAIN storage /\ storage[k].value = 2

----------------------------------------------------------------------------
(* C27 *)

\* C27: an entry stored under a key of the current UTC date has not expired,
\* and as long as the date stays the same no step removes it and a read
\* finds the count it holds: usage recorded today is not lost to the ttl or
\* to cleanup before the day is over.
C27_TodayNeverExpires ==
    [][\A k \in DOMAIN storage :
          k[2] = utcDate(now)
          => /\ now <= storage[k].expires
             /\ utcDate(now') = k[2]
                  => /\ k \in DOMAIN storage'
                     /\ Stored(storage', k, now') = storage'[k].value
      ]_vars

\* At 23:59:59 of day 0 a request has been rejected and the file still holds
\* the entries written at 12:00:00 of that day
C27_Witness ==
    /\ now = 86399
    /\ IsConsume(req)
    /\ Rejection(res)
    /\ res.resetTime = SecondsPerDay
    /\ InFlight = {}
    /\ \A k \in KeysOf(req, now) :
          k \in DOMAIN storage /\ storage[k].timestamp = 43200 /\ storage[k].value = 2

----------------------------------------------------------------------------
(* C10 *)

\* C10: a request with an action other than check_and_increment and
\* get_remaining is rejected with status 400 and changes neither the counter
\* file nor the suspicion file.
C10_InvalidActionTouchesNothing ==
    [][(Served /\ Evaluated(req')
          /\ req'.action \notin {"check_and_increment", "get_remaining"})
       => /\ res'.status = 400
          /\ storage' = Found.storage
          /\ suspicious' = Found.suspicious
      ]_vars

----------------------------------------------------------------------------
(* C11 *)

\* C11: a POST request whose userId is missing or empty is answered with
\* status 400 and changes neither the counter file nor the suspicion file:
\* no entry and no record is created, modified or removed.
C11_NoUserIdTouchesNothing ==
    [][(Handled /\ req'.method = "POST" /\ req'.hasBody
          /\ req'.userId \in {"", "absent"})
       => /\ res'.status = 400
          /\ res'.kind = "error"
          /\ Immediate
          /\ storage' = storage
          /\ suspicious' = suspicious
      ]_vars

\* A request with an empty userId was refused while the counter file holds
\* an entry whose expiry has passed, and the address has no suspicion record
C11_Witness ==
    /\ req # NoRequest
    /\ req.method = "POST"
    /\ req.userId = ""
    /\ res.status = 400
    /\ \E k \in DOMAIN storage : now > storage[k].expires
    /\ req.ip \notin DOMAIN suspicious

----------------------------------------------------------------------------
(* C12 *)

\* The count and the limit that the answered request is evaluated with
\* under the condition of the files
SeenCount == IF Found.disk.limits = "unreadable" THEN 0 ELSE Count

SeenLimit ==
    IF Found.disk.suspects = "unreadable" THEN Ceiling(TypeOf(req'), FALSE) ELSE Limit

\* C12: a failure of the counter file is never passed on to the caller.  A
\* check_and_increment handled while the file cannot be written leaves the
\* file as it is; handled while the file cannot be read it counts 0 under
\* every key and is answered with status 200, allowed=true and the limit
\* less one remaining, whatever the file holds.
C12_StoreFailureFailsOpen ==
    [][(Handled /\ IsConsume(req') /\ HasCharAt(TypeOf(req'))
          /\ Printable(req'.deviceFingerprint))
       => /\ res'.status = 200
          /\ res'.kind = "check_and_increment"
          /\ Served =>
                /\ res'.allowed = (SeenCount < SeenLimit)
                /\ disk.limits # "ok" => storage' = Found.storage
                /\ disk.limits = "unreadable" =>
                      /\ res'.allowed
                      /\ res'.remaining = SeenLimit - 1
      ]_vars

\* A post is allowed, with one remaining, while the counter file, which
\* holds 2 under each of its keys, cannot be read
C12_Witness ==
    /\ disk.limits = "unreadable"
    /\ IsConsume(req)
    /\ TypeOf(req) = "posts"
    /\ res.status = 200
    /\ res.allowed
    /\ res.remaining = 1
    /\ InFlight = {}
    /\ \A k \in KeysOf(req, now) : k \in DOMAIN storage /\ storage[k].value = 2

----------------------------------------------------------------------------
(* C13 *)

\* Handling the answered request throws: it has no body to destructure, its
\* deviceFingerprint cannot be made part of a key, or it is a
\* check_and_increment below its limit whose type has no charAt method
Fails ==
    \/ req'.method = "POST" /\ ~req'.hasBody
    \/ Evaluated(req') /\ ~Printable(req'.deviceFingerprint)
    \/ /\ IsConsume(req')
       /\ ~HasCharAt(TypeOf(req'))
       /\ SeenCount < SeenLimit

\* C13: a request whose handling throws is answered by the handler itself,
\* with status 500 and a body carrying allowed=true and remaining=9, which
\* is also what the caller's checkAndIncrement reports; no other request is
\* answered so, no exception is left unanswered, and the request is
\* evaluated once: what it wrote before failing stays written once.
C13_InternalFailureFailsOpen ==
    [][Handled
       => /\ res'.kind # "thrown"
          /\ res'.status = 500 =>
                /\ res'.allowed
                /\ res'.remaining = 9
                /\ ClientCheckAndIncrement(res').allowed
                /\ ClientCheckAndIncrement(res').remaining = 9
          /\ Served =>
                /\ Fails <=> res'.status = 500
                /\ (Fails /\ ~req'.hasBody)
                      => storage' = Found.storage /\ suspicious' = Found.suspicious
                /\ (Fails /\ req'.hasBody /\ ~Printable(req'.deviceFingerprint))
                      => /\ suspicious' = Found.suspicious
                         /\ storage' = IF disk.limits = "ok"
                                       THEN Live(Found.storage, now)
                                       ELSE Found.storage
                /\ (Fails /\ req'.hasBody /\ Printable(req'.deviceFingerprint)
                      /\ disk.limits = "ok") =>
                      \A k \in KeysOf(req', now) :
                         /\ k \in DOMAIN storage'
                         /\ storage'[k].value = Count + 1
      ]_vars

\* A check_and_increment whose type is a number was answered with the
\* fail-open body after it had counted itself under its three keys
C13_Witness ==
    /\ IsConsume(req)
    /\ TypeOf(req) = TypeNumber
    /\ res.status = 500
    /\ res.allowed
    /\ res.remaining = 9
    /\ disk = Healthy
    /\ InFlight = {}
    /\ \A k \in KeysOf(req, now) : k \in DOMAIN storage /\ storage[k].value = 2

----------------------------------------------------------------------------
(* C29 *)

\* The response body has a field remaining
CarriesRemaining(response) ==
    response.kind \in {"check_and_increment", "get_remaining"} \/ response.status = 500

\* C29: every response body that carries remaining for a request of type
\* comments or posts, the body sent by the catch block of handler included,
\* has 0 <= remaining <= 10 for comments and 0 <= remaining <= 2 for posts.
C29_RemainingWithinBaseLimit ==
    [][(Handled /\ req'.method = "POST" /\ CarriesRemaining(res')
          /\ TypeOf(req') \in {"comments", "posts"})
       => /\ 0 <= res'.remaining
          /\ res'.remaining <= Ceiling(TypeOf(req'), FALSE)
      ]_vars

----------------------------------------------------------------------------
(* C14 *)

\* The key that the n-th get of an invocation with locals c reads
KeyRead(c, n) ==
    <<(<<primaryKey(c.r), secondaryKey(c.r), tertiaryKey(c.r)>>)[n], c.date, TypeOf(c.r)>>

\* What get is to return for key k of counter file data at instant t
Returned0(data, k, t) ==
    IF k \notin DOMAIN data THEN 0
    ELSE IF t > data[k].expires THEN 0
    ELSE data[k].value

\* C14: get returns 0 for a key that is not in the file and for a key whose
\* item is in the file with its expiry passed, and the stored value for an
\* item that has not expired, called on its own or as one of the three reads
\* of a request; the maximum over the three keys is the maximum of what the
\* three reads returned, so that an expired item counts as 0 whether cleanup
\* has removed it or it is still in the file.
C14_ExpiredCountsAsAbsent ==
    [][/\ (Handled /\ req'.method = "get")
          => res'.value = Returned0(storage, req'.key, now)
       /\ \A i \in DOMAIN calls, n \in 1..3 :
             (calls[i].pc = <<"get1", "get2", "get3">>[n] /\ calls'[i].pc # calls[i].pc)
                => calls'[i].counts[n] = Returned0(storage, KeyRead(calls[i], n), now)
       /\ (Handled /\ IsPeek(req') /\ res'.status = 200)
          => LET c == calls[Answerer]
             IN  res'.remaining =
                    Max2(0, Ceiling(TypeOf(req'), c.isSuspicious)
                               - MaxOf({c.counts[n] : n \in 1..3}))
      ]_vars

\* get has just returned 0 for a key whose item, with count 2 and its expiry
\* passed, is still in the file, and a get_remaining under way has read 0
\* under its three keys, which are all still in the file with count 2
C14_Witness ==
    /\ req.method = "get"
    /\ res.value = 0
    /\ req.key \in DOMAIN storage
    /\ storage[req.key].value = 2
    /\ now > storage[req.key].expires
    /\ \E i \in DOMAIN calls :
          /\ calls[i].pc = "max"
          /\ calls[i].counts = <<0, 0, 0>>
          /\ \A n \in 1..3 :
                /\ KeyRead(calls[i], n) \in DOMAIN storage
                /\ storage[KeyRead(calls[i], n)].value = 2

----------------------------------------------------------------------------
(* C24 *)

\* This instant and the later ones of GetInstants
FromNow == {now} \cup {t \in GetInstants : t > now}

\* C24: cleanup on a working counter file removes exactly the entries whose
\* expiry has passed and leaves every other entry as it was; a second
\* cleanup at the same instant changes nothing; and at this instant or
\* later no get returns another value, and the cleanup that every request
\* starts with leaves no other file, because cleanup has run.
C24_SweepExactIdempotentUnseen ==
    [][(req'.method = "cleanup" /\ served' = served /\ now' = now
          /\ calls' = calls /\ disk.limits = "ok")
       => /\ DOMAIN storage' = {k \in DOMAIN storage : now <= storage[k].expires}
          /\ \A k \in DOMAIN storage' : storage'[k] = storage[k]
          /\ Cleanup(disk.limits, storage', now) = storage'
          /\ \A t \in FromNow :
                /\ Cleanup(disk.limits, storage', t) = Cleanup(disk.limits, storage, t)
                /\ \A key \in ProbeKeys :
                      StorageGetValue(disk.limits, storage', key, t)
                          = StorageGetValue(disk.limits, storage, key, t)
      ]_vars

\* cleanup has just removed an expired entry from a file that still holds an
\* entry expiring at this very instant
C24_Witness ==
    /\ req.method = "cleanup"
    /\ res.cleaned
    /\ disk.limits = "ok"
    /\ DOMAIN storage # KeysOn(PeekPosts, 0)
    /\ \A k \in DOMAIN storage : now <= storage[k].expires
    /\ \E k \in DOMAIN storage : storage[k].expires = now

----------------------------------------------------------------------------
(* C15 *)

\* C15: a request from an address whose suspicion record was last written
\* more than 7 days earlier finds no userId on record: the record it writes
\* holds its own userId only and the request is not suspicious.
C15_SevenDayRetention ==
    [][(Served /\ (IsConsume(req') \/ IsPeek(req'))
          /\ req'.ip \in DOMAIN Found.suspicious
          /\ Found.now > Found.suspicious[req'.ip].lastSeen + (7 * SecondsPerDay))
       => /\ suspicious'[req'.ip].userIds = {req'.userId}
          /\ ~res'.suspicious
      ]_vars

----------------------------------------------------------------------------
(* C16 *)

\* The user ids on record for address ip
IdsOf(sdata, ip) == IF ip \in DOMAIN sdata THEN sdata[ip].userIds ELSE {}

\* C16: no step removes a userId from a suspicion record; a request that
\* reaches checkSuspiciousActivity leaves the record of its address with the
\* ids it had and its own userId, which is no change when that userId was
\* on record already; and the suspicious flag of the response is true
\* exactly when the record then holds more than 3 ids.
C16_IdSetOnlyGrows ==
    [][/\ \A i \in DOMAIN suspicious :
             i \in DOMAIN suspicious' /\ suspicious[i].userIds \subseteq suspicious'[i].userIds
       /\ (Served /\ Evaluated(req')) =>
             LET old == IdsOf(Found.suspicious, req'.ip)
                 new == IdsOf(suspicious', req'.ip)
             IN  /\ new = old \cup {req'.userId}
                 /\ req'.userId \in old => new = old
                 /\ req'.userId \notin old => Cardinality(new) = Cardinality(old) + 1
                 /\ req'.action \in {"check_and_increment", "get_remaining"}
                       => res'.suspicious = (Cardinality(new) > 3)
      ]_vars

----------------------------------------------------------------------------
(* C19 *)

\* C19: every get_remaining and every check_and_increment, allowed or
\* rejected, leaves its userId in the suspicion record of its address, and
\* is itself evaluated against the limit that the record with this userId
\* in it gives.
C19_ObservedBeforeEvaluated ==
    [][(Served /\ (IsConsume(req') \/ IsPeek(req')))
       => /\ req'.ip \in DOMAIN suspicious'
          /\ req'.userId \in suspicious'[req'.ip].userIds
          /\ res'.suspicious
                = (Cardinality(IdsOf(Found.suspicious, req'.ip) \cup {req'.userId}) > 3)
          /\ EvaluatedAgainst(req', res',
                 Ceiling(TypeOf(req'),
                         Cardinality(IdsOf(Found.suspicious, req'.ip) \cup {req'.userId}) > 3),
                 Count)
      ]_vars

----------------------------------------------------------------------------
(* C17 *)

\* C17: no step, of whatever interleaving of the invocations, removes an
\* unexpired counter entry or lowers the count it holds.
C17_CountNeverDecreases ==
    [][\A k \in DOMAIN storage :
          now <= storage[k].expires =>
             /\ k \in DOMAIN storage'
             /\ storage'[k].value >= storage[k].value
      ]_vars

----------------------------------------------------------------------------
(* C18 *)

\* C18: on one UTC day the number of check_and_increment requests of one
\* identity and type that are answered allowed=true is at most the
\* effective limit plus the number of those requests that were handled
\* while another request of that identity was.
C18_OvercountBounded ==
    peek.granted.posts <= Ceiling("posts", FALSE) + peek.overlapped

\* Four posts were allowed against a limit of 2, each of them handled while
\* another one was
C18_Witness ==
    /\ InFlight = {}
    /\ peek.granted.posts = 4
    /\ peek.overlapped = 4
    /\ Ceiling("posts", FALSE) = 2

----------------------------------------------------------------------------
(* C20 *)

InvalidAction(response) ==
    response.status = 400 /\ response.kind = "error" /\ response.error = "Invalid action"

\* C20: in v1.2 and in v1.3 a request with action reset is answered as an
\* invalid action and leaves every counter entry unchanged.
C20_ResetChangesNoEntry ==
    [][(Handled /\ Evaluated(req') /\ req'.action = "reset")
       => /\ InvalidAction(res')
          /\ storage' = Found.storage
      ]_vars

----------------------------------------------------------------------------
(* C21 *)

\* The get_remaining requests for the type other than the one of r, of the
\* userIds u1 and u4 from the context of r
OtherQuota(r) ==
    {[r EXCEPT !.userId = u, !.action = "get_remaining", !.type = ty] :
        u \in {"u1", "u4"}, ty \in {"comments", "posts"} \ {TypeOf(r)}}

\* The remaining that request r is to be told on these files
RemainingFor(data, sdata, r, t) ==
    Max2(0, Effective(sdata, r) - Authoritative(data, r, t))

\* The suspicion flag that request r is to be given on this file
FlagFor(sdata, r) == Cardinality(IdsWith(sdata, r)) > 3

\* The counts of every other type are what they were
OtherCountsKept(r) ==
    \A k \in DOMAIN Found.storage \cup DOMAIN storage' :
        k[3] # TypeOf(r) => Stored(storage', k, now) = Stored(Found.storage, k, now)

\* C21 as stated: a check_and_increment changes no count stored for another
\* type, nor the remaining returned for another type, for any identity.
C21_QuotasIndependent ==
    [][(Served /\ IsConsume(req'))
       => /\ OtherCountsKept(req')
          /\ \A r2 \in OtherQuota(req') :
                RemainingFor(storage', suspicious', r2, now)
                    = RemainingFor(Found.storage, Found.suspicious, r2, now)
      ]_vars

\* C21 amended: a check_and_increment changes no count stored for another
\* type, and the remaining returned for another type stays the same for
\* every request whose suspicion flag it did not change (recording the
\* fourth userId of an address tightens the limit of every type for the
\* other userIds of that address).
C21_CountersIndependent ==
    [][(Served /\ IsConsume(req'))
       => /\ OtherCountsKept(req')
          /\ \A r2 \in OtherQuota(req') :
                (FlagFor(suspicious', r2) = FlagFor(Found.suspicious, r2))
                   => RemainingFor(storage', suspicious', r2, now)
                         = RemainingFor(Found.storage, Found.suspicious, r2, now)
      ]_vars

\* An allowed post of a context that has a comment counted today
C21_Witness ==
    /\ IsConsume(req)
    /\ TypeOf(req) = "posts"
    /\ res.status = 200
    /\ res.allowed
    /\ InFlight = {}
    /\ Authoritative(storage, req, now) = 1
    /\ Authoritative(storage, [req EXCEPT !.type = "comments"], now) = 1

----------------------------------------------------------------------------
(* C23 *)

\* The days of month m (1 to 12) of year y in the Gregorian calendar
DaysInMonth(y, m) ==
    IF m = 2
    THEN (IF (y % 4 = 0 /\ y % 100 # 0) \/ y % 400 = 0 THEN 29 ELSE 28)
    ELSE IF m \in {4, 6, 9, 11} THEN 30
    ELSE 31

\* The calendar date after <<year, month, date>>
NextDate(d) ==
    IF d[3] < DaysInMonth(d[1], d[2]) THEN <<d[1], d[2], d[3] + 1>>
    ELSE IF d[2] < 12 THEN <<d[1], d[2] + 1, 1>>
    ELSE <<d[1] + 1, 1, 1>>

\* The YYYY-MM-DD of toISOString()
IsoDate(t) == <<YearFromTime(t), MonthFromTime(t) + 1, DateFromTime(t)>>

HasResetTime(response) ==
    response.status = 200 /\ response.kind \in {"check_and_increment", "get_remaining"}

\* C23: the resetTime of a response is 00:00:00.000 UTC of a calendar day:
\* later than the instant of the response, at most 24 hours later, and dated
\* one day after the window date of the request's counter keys, also at the
\* end of a month or of a year.
C23_ResetAtNextMidnight ==
    [][(Handled /\ HasResetTime(res'))
       => /\ TimeWithinDay(res'.resetTime) = 0
          /\ now < res'.resetTime
          /\ res'.resetTime <= now + SecondsPerDay
          /\ utcDate(res'.resetTime) = calls[Answerer].date + 1
          /\ IsoDate(res'.resetTime)
                = NextDate(IsoDate(calls[Answerer].date * SecondsPerDay))
      ]_vars

----------------------------------------------------------------------------
(* C25 *)

\* The invocations that answer in this step
Answering == {i \in DOMAIN calls : calls[i].pc # "idle" /\ calls'[i].pc = "idle"}

\* The number of store methods an invocation called
MethodCalls(ops) ==
    ops.cleanup + ops.getSuspicious + ops.setSuspicious + ops.get + ops.set

\* C25 as stated: a valid request ends with one response after at most 3
\* counter reads and 3 counter writes, 1 suspicion read and 1 suspicion
\* write, and no other store operation; a get_remaining makes exactly 3
\* counter reads and the counter file is not written for it.
C25_EightStoreOperations ==
    [][\A i \in Answering :
          LET ops == calls[i].ops
          IN  /\ ops.get <= 3 /\ ops.set <= 3
              /\ ops.getSuspicious = 1 /\ ops.setSuspicious = 1
              /\ MethodCalls(ops) <= 8
              /\ calls[i].r.action = "get_remaining"
                    => ops.get = 3 /\ ops.set = 0 /\ ops.written = 0
      ]_vars

\* C25 amended: every valid request ends with exactly one response after one
\* cleanup of the counter file, 1 suspicion read, 1 suspicion write, 3
\* counter reads and, for an allowed check_and_increment only, 3 counter
\* sets; get_remaining calls no set, but the counter file is rewritten for
\* it when its cleanup or one of its reads finds an expired entry.
C25_NineStoreOperations ==
    /\ [][/\ \A i \in Answering :
                LET ops == calls[i].ops
                    consumed == calls[i].r.action = "check_and_increment"
                                   /\ res'.allowed
                IN  /\ ops.cleanup = 1
                    /\ ops.getSuspicious = 1 /\ ops.setSuspicious = 1
                    /\ ops.get = 3
                    /\ ops.set = IF consumed THEN 3 ELSE 0
                    /\ ops.written <= ops.set + ops.get + 1
                    /\ MethodCalls(ops) <= 9
                    /\ req' = calls[i].r
          /\ Cardinality(Answering) <= 1
          /\ Handled <=> Answering # {}
         ]_vars
    /\ \A i \in 1..MaxInFlight : (calls[i].pc # "idle") ~> (calls[i].pc = "idle")

\* An allowed check_and_increment is about to answer after 9 calls, and a
\* get_remaining that arrived after the entries of day 0 expired has made
\* its 6 calls, its cleanup rewriting the counter file
C25_Witness ==
    \E i, j \in DOMAIN calls :
        /\ calls[i].pc = "respond"
        /\ calls[i].r.action = "check_and_increment"
        /\ MethodCalls(calls[i].ops) = 9
        /\ calls[j].pc = "max"
        /\ calls[j].r.action = "get_remaining"
        /\ MethodCalls(calls[j].ops) = 6
        /\ calls[j].ops.written = 1

----------------------------------------------------------------------------
(* C26 *)

\* C26: with requests handled one at a time, whatever the other contexts
\* and userIds do in between, the check_and_increment requests of one fixed
\* (address, user-agent, deviceFingerprint) that are allowed on one UTC day
\* number at most 10 for comments and at most 2 for posts.
C26_BaseLimitPerContext ==
    /\ GrantedToday.comments <= 10
    /\ GrantedToday.posts <= 2

\* The home context has had its tenth comment allowed, and then one
\* refused, on a day on which another context or another type was counted
C26_Witness ==
    /\ GrantedToday.comments = 10
    /\ FromHome(req)
    /\ req.type = "comments"
    /\ ~res.allowed
    /\ Cardinality(DOMAIN storage) > 3

----------------------------------------------------------------------------
(* C28 *)

\* C28: whatever values of type the home caller sends, the number of its
\* check_and_increment requests allowed on one UTC day is at most
\* 10 + 2 = 12; a type that is neither comments nor posts is counted under
\* one of those two quotas.
C28_TypeSelectsTwoQuotas ==
    GrantedToday.comments + GrantedToday.posts + GrantedToday.other <= 12

----------------------------------------------------------------------------
(* C30 *)

\* C30: the v1.2 server allows the first L check_and_increment calls of one
\* context on one UTC day (L = 10 for comments, 2 for posts) with remaining
\* L - 1 down to 0, refuses every later call, and get_remaining returns L
\* less the number of calls allowed so far.
C30_V12EnforcesLimits ==
    [][(Handled /\ server = "v1.2")
       => LET L == IF TypeOf(req') = "posts" THEN 2 ELSE 10
              n == GrantedToday[TypeOf(req')]
          IN  /\ IsConsume(req')
                   => IF n < L
                      THEN res'.allowed /\ res'.remaining = Number(L - n - 1)
                      ELSE ~res'.allowed /\ res'.remaining = Number(0)
              /\ IsPeek(req') => res'.remaining = Number(L - n)
      ]_vars

----------------------------------------------------------------------------
(* C31 *)

\* The counters of dailyLimits kept under identity keys
IdentityCounters(data) ==
    [k \in {x \in DOMAIN data : x.kind = "identity"} |-> data[k]]

\* The request bears a userId not yet recorded for its address, which has a
\* recorded userId and a strict count of 5 or more for today
BeyondStrict(data, sdata, r, t) ==
    /\ Evaluated(r)
    /\ SuspiciousKey(r.ip) \in DOMAIN sdata
    /\ sdata[SuspiciousKey(r.ip)] # {}
    /\ r.userId \notin sdata[SuspiciousKey(r.ip)]
    /\ StrictKey(r.ip, utcDate(t)) \in DOMAIN data
    /\ data[StrictKey(r.ip, utcDate(t))] >= 5

\* The response carries allowed = true
CarriesAllowed(response) ==
    /\ response.status \in {200, 500}
    /\ response.kind \in {"check_and_increment", "error"}
    /\ response.allowed

\* C31: on the v1.1 server a request with a userId not yet recorded for its
\* address, once the address has a recorded userId and a strict count of 5
\* for today, is denied: its response does not carry allowed = true and no
\* identity counter changes.
C31_StrictLimitDenies ==
    [][(Handled /\ server = "v1.1"
          /\ BeyondStrict(Found.storage, Found.suspicious, req', Found.now))
       => /\ ~CarriesAllowed(res')
          /\ IdentityCounters(storage') = IdentityCounters(Found.storage)
      ]_vars

----------------------------------------------------------------------------
(* C32 *)

\* The step is an allowed check_and_increment
AllowedIncrement ==
    /\ Handled
    /\ res'.status = 200
    /\ res'.kind = "check_and_increment"
    /\ res'.allowed

\* C32: on the v1.1 server, after an allowed increment dailyLimits holds no
\* entry, identity counter or strict count, dated more than two days before
\* today, and every entry dated today that it held before is still there.
C32_CleanupDropsOldKeepsToday ==
    [][(AllowedIncrement /\ server = "v1.1")
       => /\ \A k \in DOMAIN storage' : k.date >= utcDate(now) - 2
          /\ \A k \in DOMAIN Found.storage :
                k.date = utcDate(now) => k \in DOMAIN storage'
      ]_vars

----------------------------------------------------------------------------
(* C33 *)

\* C33: getRemainingCount returns the remaining value of the response
\* whenever the response is OK and reports one, whatever that value is, and
\* 10 when the request fails or the response is not OK.
C33_ClientReturnsServerRemaining ==
    [][(Handled /\ peek'.method = "getRemainingCount")
       => IF Ok(res')
          THEN (HasJson(res') /\ "remaining" \in DOMAIN res')
                  => peek'.result = res'.remaining
          ELSE peek'.result = 10
      ]_vars

====
